---- MODULE Spec2Model ----
(***************************************************************************)
(* Proof-of-Beneficial-Assignment ledger: the PoBA pallet (per-slot best   *)
(* proposal, finalization), the escrow pallet (assignment lifecycle) and   *)
(* the proposer/finalizer worker that drives them.                         *)
(***************************************************************************)
EXTENDS Integers, Sequences, FiniteSets, TLC

VARIABLES
    BestProposal,       \* pallet_poba StorageMap slot -> Proposal (OptionQuery)
    FinalizedProposal,  \* pallet_poba StorageMap slot -> Proposal (OptionQuery)
    LastFinalizedSlot,  \* pallet_poba StorageValue u64 (ValueQuery, default 0)
    NextEscrowId,       \* pallet_escrow StorageValue EscrowId (ValueQuery, default 0)
    Escrows,            \* pallet_escrow StorageMap EscrowId -> AssignmentEscrow (OptionQuery)
    RequestToEscrow,    \* pallet_escrow StorageMap RequestUuid -> EscrowId (OptionQuery)
    block_number,       \* frame_system block number of the block being executed
    events,             \* events deposited by the most recent dispatched call
    lastCall,           \* [name, result] of the most recent dispatched call
    submitted,          \* history: per slot, the total_scores of the accepted submissions, in order
    nCalls,             \* number of calls dispatched so far (bounded by MaxCalls)
    market,             \* backend: the open requests and active offers it serves now
    nMarketChanges,     \* number of changes of the market so far (bounded by MaxMarketChanges)
    finalize_lag_slots, \* POBA_FINALIZE_LAG_SLOTS of the finalizer node
    wpc,                \* per worker: the request of its loop it sends next
    wslot,              \* per worker: `slot` of its current iteration
    wproposal,          \* per worker: (total_score, matches) of its current iteration
    last_finalized_slot_local,  \* per worker: last_finalized_slot_local
    solverInput,        \* solver run on its own: [env, market, overflow_checks]
    solution,           \* solver run on its own: what compute_matches_for_market produced
    contract,           \* ink! contract Escrow: its storage struct
    validation,         \* ink! contract Escrow: the latest validate_winner call and its answer
    ink_env,            \* chain of the contract: [block_timestamp, balance of the contract]
    transfers,          \* history: the transfers the contract made, in order
    inkCall,            \* the latest escrow message: [name, caller, assignment_id, result]
    nInkCalls           \* number of escrow messages so far (bounded by MaxInkCalls)

pobaVars == <<BestProposal, FinalizedProposal, LastFinalizedSlot>>
escrowVars == <<NextEscrowId, Escrows, RequestToEscrow>>
solverVars == <<solverInput, solution>>
contractVars == <<contract, validation, ink_env, transfers, inkCall, nInkCalls>>
workerVars == <<market, nMarketChanges, finalize_lag_slots, wpc, wslot, wproposal, last_finalized_slot_local>>
vars == <<BestProposal, FinalizedProposal, LastFinalizedSlot, NextEscrowId, Escrows,
          RequestToEscrow, block_number, events, lastCall, submitted, nCalls,
          market, nMarketChanges, finalize_lag_slots, wpc, wslot, wproposal,
          last_finalized_slot_local, solverInput, solution, contract, validation,
          ink_env, transfers, inkCall, nInkCalls>>

----------------------------------------------------------------------------
(* Bounds of the model *)

\* number of extrinsics dispatched in one behaviour
MaxCalls == 4

\* number of extrinsics dispatched in one behaviour of the two pallets together
MaxLedgerCalls == 3
\* last block number executed
MaxBlock == 2

\* number of times the backend's market changes in one behaviour
MaxMarketChanges == 1

\* length of the request list and of the offer list given to the solver on its own
MaxRequests == 2
MaxOffers == 2

\* length of the assignments vector given to validate_winner
MaxAssignments == 2
\* number of escrow messages sent to the ink! contract in one behaviour
MaxInkCalls == 4
\* last block timestamp of the contract's chain, in ms
MaxTimestamp == 2

(* Input domains *)
Accounts == {"Alice", "Bob"}
Slots == {0, 1}
Scores == {1, 2, 3}
RequestUuids == {"R1", "R2"}
OfferUuids == {"O1", "O2"}
Prices == {750}
PartialScores == {1}
Amounts == {0, 1000}
\* escrow ids tried by the calls: those that can exist, and one that never does
EscrowIds == 0..Cardinality(RequestUuids)

----------------------------------------------------------------------------
(* pallet_poba: domain types *)

MAX_MATCHES_PER_PROPOSAL == 256

\* call parameter element: (request_uuid, offer_uuid, agreed_price_cents, partial_score)
MatchTuples == RequestUuids \X OfferUuids \X Prices \X PartialScores

Match(t) ==
    [request_uuid |-> t[1], offer_uuid |-> t[2],
     agreed_price_cents |-> t[3], partial_score |-> t[4]]

Proposal(total_score, matches) == [total_score |-> total_score, matches |-> matches]

\* a vector of n copies of one tuple (for the vectors around the BoundedVec limit)
Fill(n) == [k \in 1..n |-> <<"R1", "O1", 750, 1>>]

\* the `matches` arguments tried, all built from MatchTuples
\* (empty; two valid singletons; a repeated request; a repeated offer; one over the limit)
MatchVecs ==
    { <<>>,
      << <<"R1", "O1", 750, 1>> >>,
      << <<"R2", "O2", 750, 1>> >>,
      << <<"R1", "O1", 750, 1>>, <<"R1", "O2", 750, 1>> >>,
      << <<"R1", "O1", 750, 1>>, <<"R2", "O1", 750, 1>> >>,
      Fill(MAX_MATCHES_PER_PROPOSAL + 1) }

\* StorageMap::insert / StorageMap::take on a map held as a function on its keys
Insert(map, k, v) == [x \in (DOMAIN map) \cup {k} |-> IF x = k THEN v ELSE map[x]]
Remove(map, k) == [x \in (DOMAIN map) \ {k} |-> map[x]]

Ok == "Ok"

\* result of a dispatchable of pallet_poba: the dispatch result, the storage it leaves, the events it deposits
PobaOutcome(result, best, fin, last, evs) ==
    [result |-> result, BestProposal |-> best, FinalizedProposal |-> fin,
     LastFinalizedSlot |-> last, events |-> evs]

PobaErr(e) == PobaOutcome(e, BestProposal, FinalizedProposal, LastFinalizedSlot, <<>>)

----------------------------------------------------------------------------
(* pallet_poba: calls *)

\* variant: every accepted submission is installed, whatever its score
submit_proposal_overwrite(who, slot, total_score, matches) ==
    LET tmp == [k \in 1..Len(matches) |-> Match(matches[k])]
    IN  IF Len(tmp) > MAX_MATCHES_PER_PROPOSAL THEN PobaErr("TooManyMatches")
        ELSE IF Len(tmp) = 0 THEN PobaErr("EmptyMatches")
        ELSE PobaOutcome(Ok, Insert(BestProposal, slot, Proposal(total_score, tmp)),
                 FinalizedProposal, LastFinalizedSlot,
                 <<[event |-> "ProposalSubmitted", slot |-> slot,
                    total_score |-> total_score, matches |-> Len(tmp),
                    proposer |-> who]>>)

\* variant: an equal score replaces the installed proposal (>= for >)
submit_proposal_ge(who, slot, total_score, matches) ==
    LET tmp == [k \in 1..Len(matches) |-> Match(matches[k])]
    IN  IF Len(tmp) > MAX_MATCHES_PER_PROPOSAL THEN PobaErr("TooManyMatches")
        ELSE IF Len(tmp) = 0 THEN PobaErr("EmptyMatches")
        ELSE
            LET best == IF slot \in DOMAIN BestProposal
                           /\ ~(total_score >= BestProposal[slot].total_score)
                        THEN BestProposal
                        ELSE Insert(BestProposal, slot, Proposal(total_score, tmp))
            IN  PobaOutcome(Ok, best, FinalizedProposal, LastFinalizedSlot,
                    <<[event |-> "ProposalSubmitted", slot |-> slot,
                       total_score |-> total_score, matches |-> Len(tmp),
                       proposer |-> who]>>)

\* variant: the BoundedVec holds one match more
submit_proposal_wide(who, slot, total_score, matches) ==
    LET tmp == [k \in 1..Len(matches) |-> Match(matches[k])]
    IN  IF Len(tmp) > MAX_MATCHES_PER_PROPOSAL + 1 THEN PobaErr("TooManyMatches")
        ELSE IF Len(tmp) = 0 THEN PobaErr("EmptyMatches")
        ELSE
            LET matches_len == Len(tmp)
                proposal == Proposal(total_score, tmp)
                best == IF slot \in DOMAIN BestProposal
                        THEN IF total_score > BestProposal[slot].total_score
                             THEN Insert(BestProposal, slot, proposal)
                             ELSE BestProposal
                        ELSE Insert(BestProposal, slot, proposal)
            IN  PobaOutcome(Ok, best, FinalizedProposal, LastFinalizedSlot,
                    <<[event |-> "ProposalSubmitted", slot |-> slot,
                       total_score |-> total_score, matches |-> matches_len,
                       proposer |-> who]>>)

submit_proposal(who, slot, total_score, matches) ==
    LET tmp == [k \in 1..Len(matches) |-> Match(matches[k])]
    IN  IF Len(tmp) > MAX_MATCHES_PER_PROPOSAL THEN PobaErr("TooManyMatches")
        ELSE IF Len(tmp) = 0 THEN PobaErr("EmptyMatches")
        ELSE
            LET matches_len == Len(tmp)
                proposal == Proposal(total_score, tmp)
                best == IF slot \in DOMAIN BestProposal
                        THEN IF total_score > BestProposal[slot].total_score
                             THEN Insert(BestProposal, slot, proposal)
                             ELSE BestProposal
                        ELSE Insert(BestProposal, slot, proposal)
            IN  PobaOutcome(Ok, best, FinalizedProposal, LastFinalizedSlot,
                    <<[event |-> "ProposalSubmitted", slot |-> slot,
                       total_score |-> total_score, matches |-> matches_len,
                       proposer |-> who]>>)

\* variant: the winner is read (get) and not removed (take)
finalize_slot_get(who, slot) ==
    IF slot \notin DOMAIN BestProposal THEN PobaErr("NoProposalForSlot")
    ELSE
        LET winner == BestProposal[slot]
        IN  PobaOutcome(Ok, BestProposal, Insert(FinalizedProposal, slot, winner), slot,
                <<[event |-> "SlotFinalized", slot |-> slot,
                   total_score |-> winner.total_score,
                   matches |-> Len(winner.matches)]>>)

finalize_slot(who, slot) ==
    IF slot \notin DOMAIN BestProposal THEN PobaErr("NoProposalForSlot")
    ELSE
        LET winner == BestProposal[slot]
            taken == Remove(BestProposal, slot)
        IN  IF Len(winner.matches) = 0
            THEN PobaOutcome("NoProposalForSlot", taken, FinalizedProposal,
                             LastFinalizedSlot, <<>>)
            ELSE PobaOutcome(Ok, taken, Insert(FinalizedProposal, slot, winner), slot,
                    <<[event |-> "SlotFinalized", slot |-> slot,
                       total_score |-> winner.total_score,
                       matches |-> Len(winner.matches)]>>)

----------------------------------------------------------------------------
(* pallet_escrow: domain types *)

\* Config::ConfirmationTimeoutBlocks (no runtime in the repository configures it)
ConfirmationTimeoutBlocks == 1

DeliveryStatus ==
    {"Created", "PickedUpByCourier", "DeliveredByCourier", "ConfirmedByReceiver",
     "TimeoutReleased", "Cancelled", "Failed"}

AssignmentEscrow(request_uuid, offer_uuid, driver, payer, amount, status, created_at, deadline) ==
    [request_uuid |-> request_uuid, offer_uuid |-> offer_uuid, driver |-> driver,
     payer |-> payer, amount |-> amount, status |-> status,
     created_at |-> created_at, deadline |-> deadline]

\* result of a dispatchable of pallet_escrow
EscrowOutcome(result, next, escrows, index, evs) ==
    [result |-> result, NextEscrowId |-> next, Escrows |-> escrows,
     RequestToEscrow |-> index, events |-> evs]

EscrowErr(e) == EscrowOutcome(e, NextEscrowId, Escrows, RequestToEscrow, <<>>)

\* variant: a timeout release is recorded as Failed
Mutated_failed(escrow_id, status, evs) ==
    EscrowOutcome(Ok, NextEscrowId,
                  [Escrows EXCEPT ![escrow_id].status =
                      IF status = "TimeoutReleased" THEN "Failed" ELSE status],
                  RequestToEscrow, evs)

\* variant: the request's index entry is dropped along with the status change
Mutated_unindexed(escrow_id, status, evs) ==
    EscrowOutcome(Ok, NextEscrowId,
                  [Escrows EXCEPT ![escrow_id].status = status],
                  Remove(RequestToEscrow, Escrows[escrow_id].request_uuid), evs)

\* an Ok outcome of a call that only rewrites one escrow record (Escrows::try_mutate)
Mutated(escrow_id, status, evs) ==
    EscrowOutcome(Ok, NextEscrowId,
                  [Escrows EXCEPT ![escrow_id].status = status], RequestToEscrow, evs)

----------------------------------------------------------------------------
(* pallet_escrow: helpers *)

\* variant: the counter is read but not incremented
next_id_reuse == [id |-> NextEscrowId, NextEscrowId |-> NextEscrowId]

\* returns the id handed out and the counter it leaves
\* (wrapping_add(1) on u64: the counter stays far below 2^64 within MaxCalls calls)
next_id == [id |-> NextEscrowId, NextEscrowId |-> NextEscrowId + 1]

\* variant: TimeoutReleased is not counted as final
is_final_status_open_timeout(status) ==
    status \in {"ConfirmedByReceiver", "Cancelled", "Failed"}

is_final_status(status) ==
    status \in {"ConfirmedByReceiver", "TimeoutReleased", "Cancelled", "Failed"}

----------------------------------------------------------------------------
(* pallet_escrow: calls *)

\* variant: no check of the request index
create_escrow_unchecked(who, request_uuid, offer_uuid, driver, payer, amount) ==
    IF ~(amount > 0) THEN EscrowErr("ZeroAmountNotAllowed")
    ELSE
        LET now == block_number
            deadline == now + ConfirmationTimeoutBlocks
            alloc == next_id
            record == AssignmentEscrow(request_uuid, offer_uuid, driver, payer, amount,
                                       "Created", now, deadline)
        IN  EscrowOutcome(Ok, alloc.NextEscrowId,
                Insert(Escrows, alloc.id, record),
                Insert(RequestToEscrow, request_uuid, alloc.id),
                <<[event |-> "EscrowCreated", escrow_id |-> alloc.id,
                   request_uuid |-> request_uuid, offer_uuid |-> offer_uuid,
                   driver |-> driver, payer |-> payer, amount |-> amount,
                   deadline |-> deadline]>>)

\* variant: the id is allocated before the amount is checked
create_escrow_alloc_first(who, request_uuid, offer_uuid, driver, payer, amount) ==
    IF request_uuid \in DOMAIN RequestToEscrow THEN EscrowErr("RequestAlreadyAssigned")
    ELSE
        LET alloc == next_id
        IN  IF ~(amount > 0)
            THEN EscrowOutcome("ZeroAmountNotAllowed", alloc.NextEscrowId, Escrows,
                               RequestToEscrow, <<>>)
            ELSE
                LET now == block_number
                    deadline == now + ConfirmationTimeoutBlocks
                    record == AssignmentEscrow(request_uuid, offer_uuid, driver, payer,
                                               amount, "Created", now, deadline)
                IN  EscrowOutcome(Ok, alloc.NextEscrowId,
                        Insert(Escrows, alloc.id, record),
                        Insert(RequestToEscrow, request_uuid, alloc.id),
                        <<[event |-> "EscrowCreated", escrow_id |-> alloc.id,
                           request_uuid |-> request_uuid, offer_uuid |-> offer_uuid,
                           driver |-> driver, payer |-> payer, amount |-> amount,
                           deadline |-> deadline]>>)

\* variant: the amount is checked before the request index
create_escrow_amount_first(who, request_uuid, offer_uuid, driver, payer, amount) ==
    IF ~(amount > 0) THEN EscrowErr("ZeroAmountNotAllowed")
    ELSE IF request_uuid \in DOMAIN RequestToEscrow THEN EscrowErr("RequestAlreadyAssigned")
    ELSE
        LET now == block_number
            deadline == now + ConfirmationTimeoutBlocks
            alloc == next_id
            escrow_id == alloc.id
            record == AssignmentEscrow(request_uuid, offer_uuid, driver, payer, amount,
                                       "Created", now, deadline)
        IN  EscrowOutcome(Ok, alloc.NextEscrowId,
                Insert(Escrows, escrow_id, record),
                Insert(RequestToEscrow, request_uuid, escrow_id),
                <<[event |-> "EscrowCreated", escrow_id |-> escrow_id,
                   request_uuid |-> request_uuid, offer_uuid |-> offer_uuid,
                   driver |-> driver, payer |-> payer, amount |-> amount,
                   deadline |-> deadline]>>)

create_escrow(who, request_uuid, offer_uuid, driver, payer, amount) ==
    IF request_uuid \in DOMAIN RequestToEscrow THEN EscrowErr("RequestAlreadyAssigned")
    ELSE IF ~(amount > 0) THEN EscrowErr("ZeroAmountNotAllowed")
    ELSE
        LET now == block_number
            deadline == now + ConfirmationTimeoutBlocks
            alloc == next_id
            escrow_id == alloc.id
            record == AssignmentEscrow(request_uuid, offer_uuid, driver, payer, amount,
                                       "Created", now, deadline)
        IN  EscrowOutcome(Ok, alloc.NextEscrowId,
                Insert(Escrows, escrow_id, record),
                Insert(RequestToEscrow, request_uuid, escrow_id),
                <<[event |-> "EscrowCreated", escrow_id |-> escrow_id,
                   request_uuid |-> request_uuid, offer_uuid |-> offer_uuid,
                   driver |-> driver, payer |-> payer, amount |-> amount,
                   deadline |-> deadline]>>)

\* variant: the caller is tested after the status
mark_picked_up_status_first(who, escrow_id) ==
    IF escrow_id \notin DOMAIN Escrows THEN EscrowErr("EscrowNotFound")
    ELSE
        LET escrow == Escrows[escrow_id]
        IN  IF is_final_status(escrow.status) THEN EscrowErr("EscrowAlreadyFinal")
            ELSE IF escrow.status # "Created" THEN EscrowErr("InvalidStatusTransition")
            ELSE IF who # escrow.driver THEN EscrowErr("NotDriver")
            ELSE Mutated(escrow_id, "PickedUpByCourier",
                         <<[event |-> "PickedUp", escrow_id |-> escrow_id]>>)

mark_picked_up(who, escrow_id) ==
    IF escrow_id \notin DOMAIN Escrows THEN EscrowErr("EscrowNotFound")
    ELSE
        LET escrow == Escrows[escrow_id]
        IN  IF is_final_status(escrow.status) THEN EscrowErr("EscrowAlreadyFinal")
            ELSE IF who # escrow.driver THEN EscrowErr("NotDriver")
            ELSE IF escrow.status = "Created"
                 THEN Mutated(escrow_id, "PickedUpByCourier",
                              <<[event |-> "PickedUp", escrow_id |-> escrow_id]>>)
                 ELSE EscrowErr("InvalidStatusTransition")

\* variant: delivery is accepted from any non-final status
mark_delivered_any(who, escrow_id) ==
    IF escrow_id \notin DOMAIN Escrows THEN EscrowErr("EscrowNotFound")
    ELSE
        LET escrow == Escrows[escrow_id]
        IN  IF is_final_status(escrow.status) THEN EscrowErr("EscrowAlreadyFinal")
            ELSE IF who # escrow.driver THEN EscrowErr("NotDriver")
            ELSE Mutated(escrow_id, "DeliveredByCourier",
                         <<[event |-> "Delivered", escrow_id |-> escrow_id]>>)

mark_delivered(who, escrow_id) ==
    IF escrow_id \notin DOMAIN Escrows THEN EscrowErr("EscrowNotFound")
    ELSE
        LET escrow == Escrows[escrow_id]
        IN  IF is_final_status(escrow.status) THEN EscrowErr("EscrowAlreadyFinal")
            ELSE IF who # escrow.driver THEN EscrowErr("NotDriver")
            ELSE IF escrow.status = "PickedUpByCourier"
                 THEN Mutated(escrow_id, "DeliveredByCourier",
                              <<[event |-> "Delivered", escrow_id |-> escrow_id]>>)
                 ELSE EscrowErr("InvalidStatusTransition")

\* variant: the recorded driver may confirm as well
confirm_received_by_party(who, escrow_id) ==
    IF escrow_id \notin DOMAIN Escrows THEN EscrowErr("EscrowNotFound")
    ELSE
        LET escrow == Escrows[escrow_id]
        IN  IF is_final_status(escrow.status) THEN EscrowErr("EscrowAlreadyFinal")
            ELSE IF who # escrow.payer /\ who # escrow.driver THEN EscrowErr("NotPayer")
            ELSE IF escrow.status = "DeliveredByCourier"
                 THEN Mutated(escrow_id, "ConfirmedByReceiver",
                              <<[event |-> "PaymentReleased", escrow_id |-> escrow_id,
                                 amount |-> escrow.amount],
                                [event |-> "ReceiverConfirmed", escrow_id |-> escrow_id]>>)
                 ELSE EscrowErr("InvalidStatusTransition")

\* variant: the payment is not announced by an event
confirm_received_unannounced(who, escrow_id) ==
    IF escrow_id \notin DOMAIN Escrows THEN EscrowErr("EscrowNotFound")
    ELSE
        LET escrow == Escrows[escrow_id]
        IN  IF is_final_status(escrow.status) THEN EscrowErr("EscrowAlreadyFinal")
            ELSE IF who # escrow.payer THEN EscrowErr("NotPayer")
            ELSE IF escrow.status = "DeliveredByCourier"
                 THEN Mutated(escrow_id, "ConfirmedByReceiver",
                              <<[event |-> "ReceiverConfirmed", escrow_id |-> escrow_id]>>)
                 ELSE EscrowErr("InvalidStatusTransition")

confirm_received(who, escrow_id) ==
    IF escrow_id \notin DOMAIN Escrows THEN EscrowErr("EscrowNotFound")
    ELSE
        LET escrow == Escrows[escrow_id]
        IN  IF is_final_status(escrow.status) THEN EscrowErr("EscrowAlreadyFinal")
            ELSE IF who # escrow.payer THEN EscrowErr("NotPayer")
            ELSE IF escrow.status = "DeliveredByCourier"
                 THEN Mutated(escrow_id, "ConfirmedByReceiver",
                              <<[event |-> "PaymentReleased", escrow_id |-> escrow_id,
                                 amount |-> escrow.amount],
                                [event |-> "ReceiverConfirmed", escrow_id |-> escrow_id]>>)
                 ELSE EscrowErr("InvalidStatusTransition")

\* variant: the final status is tested before the offer
release_escrow_final_first(who, request_uuid, offer_uuid) ==
    IF request_uuid \notin DOMAIN RequestToEscrow THEN EscrowErr("EscrowNotFound")
    ELSE
        LET escrow_id == RequestToEscrow[request_uuid]
        IN  IF escrow_id \notin DOMAIN Escrows THEN EscrowErr("EscrowNotFound")
            ELSE
                LET escrow == Escrows[escrow_id]
                IN  IF is_final_status(escrow.status) THEN EscrowErr("EscrowAlreadyFinal")
                    ELSE IF escrow.offer_uuid # offer_uuid THEN EscrowErr("EscrowNotFound")
                    ELSE Mutated(escrow_id, "ConfirmedByReceiver",
                              <<[event |-> "PaymentReleased", escrow_id |-> escrow_id,
                                 amount |-> escrow.amount],
                                [event |-> "ReceiverConfirmed", escrow_id |-> escrow_id]>>)

release_escrow(who, request_uuid, offer_uuid) ==
    IF request_uuid \notin DOMAIN RequestToEscrow THEN EscrowErr("EscrowNotFound")
    ELSE
        LET escrow_id == RequestToEscrow[request_uuid]
        IN  IF escrow_id \notin DOMAIN Escrows THEN EscrowErr("EscrowNotFound")
            ELSE
                LET escrow == Escrows[escrow_id]
                IN  IF escrow.offer_uuid # offer_uuid THEN EscrowErr("EscrowNotFound")
                    ELSE IF is_final_status(escrow.status) THEN EscrowErr("EscrowAlreadyFinal")
                    ELSE Mutated(escrow_id, "ConfirmedByReceiver",
                              <<[event |-> "PaymentReleased", escrow_id |-> escrow_id,
                                 amount |-> escrow.amount],
                                [event |-> "ReceiverConfirmed", escrow_id |-> escrow_id]>>)

\* variant: only the payer may force the release
force_timeout_release_by_payer(who, escrow_id) ==
    LET now == block_number
    IN  IF escrow_id \notin DOMAIN Escrows THEN EscrowErr("EscrowNotFound")
        ELSE
            LET escrow == Escrows[escrow_id]
            IN  IF is_final_status(escrow.status) THEN EscrowErr("EscrowAlreadyFinal")
                ELSE IF who # escrow.payer THEN EscrowErr("NotPayer")
                ELSE IF ~(now >= escrow.deadline) THEN EscrowErr("TimeoutNotReached")
                ELSE Mutated(escrow_id, "TimeoutReleased",
                          <<[event |-> "PaymentReleased", escrow_id |-> escrow_id,
                             amount |-> escrow.amount]>>)

\* variant: the deadline block itself is still too early (> for >=)
force_timeout_release_late(who, escrow_id) ==
    LET now == block_number
    IN  IF escrow_id \notin DOMAIN Escrows THEN EscrowErr("EscrowNotFound")
        ELSE
            LET escrow == Escrows[escrow_id]
            IN  IF is_final_status(escrow.status) THEN EscrowErr("EscrowAlreadyFinal")
                ELSE IF ~(now > escrow.deadline) THEN EscrowErr("TimeoutNotReached")
                ELSE Mutated(escrow_id, "TimeoutReleased",
                          <<[event |-> "PaymentReleased", escrow_id |-> escrow_id,
                             amount |-> escrow.amount]>>)

force_timeout_release(who, escrow_id) ==
    LET now == block_number
    IN  IF escrow_id \notin DOMAIN Escrows THEN EscrowErr("EscrowNotFound")
        ELSE
            LET escrow == Escrows[escrow_id]
            IN  IF is_final_status(escrow.status) THEN EscrowErr("EscrowAlreadyFinal")
                ELSE IF ~(now >= escrow.deadline) THEN EscrowErr("TimeoutNotReached")
                ELSE Mutated(escrow_id, "TimeoutReleased",
                          <<[event |-> "PaymentReleased", escrow_id |-> escrow_id,
                             amount |-> escrow.amount]>>)

----------------------------------------------------------------------------
(* contracts/escrow: the ink! contract Escrow, winner validation *)

\* a u128 is written [max, off] and stands for max * (2^128 - 1) + off: a value close to 0
\* is [0, n], a value close to u128::MAX is [1, -n]; the offsets of the model are tiny
\* against 2^128, so two values are equal exactly when their two fields are
U128(max, off) == [max |-> max, off |-> off]
U128Max == U128(1, 0)

\* the sum of two u128 values, as a number
Plus(a, b) == U128(a.max + b.max, a.off + b.off)

\* u128::saturating_add
saturating_add(a, b) ==
    LET s == Plus(a, b)
    IN  IF s.max > 1 \/ (s.max = 1 /\ s.off > 0) THEN U128Max ELSE s

AssignmentInput(request_id, driver, pair_score) ==
    [request_id |-> request_id, driver |-> driver, pair_score |-> pair_score]

\* Escrow::new: the storage struct with every mapping empty
new(init_value) ==
    [value |-> init_value, senders |-> <<>>, drivers |-> <<>>, amounts |-> <<>>,
     statuses |-> <<>>, created_ats |-> <<>>, delivered_ats |-> <<>>, timeouts_ms |-> <<>>]

\* validate_winner was not called yet
NoValidation ==
    [state |-> "idle", winner_total_score |-> U128(0, 0), assignments |-> <<>>,
     answer |-> FALSE]

\* flip(&mut self): the storage it leaves
flip(self) == [self EXCEPT !.value = ~self.value]

\* the loop `for a in assignments.iter()` of validate_winner, from element k on
RECURSIVE computed_total(_, _, _)
computed_total(assignments, k, acc) ==
    IF k > Len(assignments) THEN acc
    ELSE computed_total(assignments, k + 1, saturating_add(acc, assignments[k].pair_score))

\* validate_winner(&self, ...): its answer (a message on &self writes no storage)
validate_winner(self, winner_total_score, assignments) ==
    LET len == Len(assignments)
    IN  IF \E i \in 1..len : \E j \in (i + 1)..len :
               assignments[i].request_id = assignments[j].request_id
        THEN FALSE
        ELSE IF computed_total(assignments, 1, U128(0, 0)) # winner_total_score THEN FALSE
        ELSE TRUE

----------------------------------------------------------------------------
(* contracts/escrow: the ink! contract Escrow, escrow messages *)

STATUS_OPEN == 0
STATUS_DELIVERED == 1
STATUS_COMPLETED == 2
STATUS_CANCELLED == 3
STATUS_REFUNDED == 4

\* a u64 is written [max, off] and stands for max * (2^64 - 1) + off, as a u128 is
U64(max, off) == [max |-> max, off |-> off]
U64Max == U64(1, 0)

\* a >= b on u64 values
U64Geq(a, b) == a.max > b.max \/ (a.max = b.max /\ a.off >= b.off)

\* u64::saturating_add
u64_saturating_add(a, b) ==
    LET s == U64(a.max + b.max, a.off + b.off)
    IN  IF s.max > 1 \/ (s.max = 1 /\ s.off > 0) THEN U64Max ELSE s

\* what a message sees of its call: self.env().caller(), transferred_value(),
\* block_timestamp(), the contract's balance (transferred value included), and whether
\* the runtime carries out a transfer the balance covers
InkEnv(caller, transferred_value, block_timestamp, balance, transfer_allowed) ==
    [caller |-> caller, transferred_value |-> transferred_value,
     block_timestamp |-> block_timestamp, balance |-> balance,
     transfer_allowed |-> transfer_allowed]

\* the chain before any block, and no message sent yet
NoInkEnv == [block_timestamp |-> U64(0, 0), balance |-> 0]
NoInkCall == [name |-> "none", caller |-> "none", assignment_id |-> 0, result |-> "ok"]

\* a message returns: the storage it leaves and the transfers it made
InkOk(storage, paid) == [result |-> "ok", storage |-> storage, paid |-> paid]
\* a message panics: the call is reverted, storage and balances are as before it
InkPanic(self) == [result |-> "panic", storage |-> self, paid |-> <<>>]

\* self.env().transfer(dest, amount).is_ok()
transfer(env, dest, amount) == env.transfer_allowed /\ env.balance >= amount

\* the fields load_escrow returns, or found = FALSE where one of its expect() panics
load_escrow(self, assignment_id) ==
    IF \/ assignment_id \notin DOMAIN self.senders
       \/ assignment_id \notin DOMAIN self.drivers
       \/ assignment_id \notin DOMAIN self.amounts
       \/ assignment_id \notin DOMAIN self.statuses
    THEN [found |-> FALSE]
    ELSE [found |-> TRUE,
          sender |-> self.senders[assignment_id],
          driver |-> self.drivers[assignment_id],
          amount |-> self.amounts[assignment_id],
          status |-> self.statuses[assignment_id],
          delivered_at |-> IF assignment_id \in DOMAIN self.delivered_ats
                           THEN self.delivered_ats[assignment_id] ELSE U64(0, 0),
          timeout_ms |-> IF assignment_id \in DOMAIN self.timeouts_ms
                         THEN self.timeouts_ms[assignment_id] ELSE U64(0, 0)]

\* variant: an existing escrow is overwritten
open_and_deposit_overwrite(self, env, assignment_id, driver, timeout_ms) ==
    LET sender == env.caller
        amount == env.transferred_value
    IN  InkOk([self EXCEPT
                  !.senders = Insert(@, assignment_id, sender),
                  !.drivers = Insert(@, assignment_id, driver),
                  !.amounts = Insert(@, assignment_id, amount),
                  !.statuses = Insert(@, assignment_id, STATUS_OPEN),
                  !.created_ats = Insert(@, assignment_id, env.block_timestamp),
                  !.delivered_ats = Insert(@, assignment_id, U64(0, 0)),
                  !.timeouts_ms = Insert(@, assignment_id, timeout_ms)],
              <<>>)

open_and_deposit(self, env, assignment_id, driver, timeout_ms) ==
    IF assignment_id \in DOMAIN self.senders THEN InkPanic(self)
    ELSE
        LET sender == env.caller
            amount == env.transferred_value
        IN  InkOk([self EXCEPT
                      !.senders = Insert(@, assignment_id, sender),
                      !.drivers = Insert(@, assignment_id, driver),
                      !.amounts = Insert(@, assignment_id, amount),
                      !.statuses = Insert(@, assignment_id, STATUS_OPEN),
                      !.created_ats = Insert(@, assignment_id, env.block_timestamp),
                      !.delivered_ats = Insert(@, assignment_id, U64(0, 0)),
                      !.timeouts_ms = Insert(@, assignment_id, timeout_ms)],
                  <<>>)

driver_mark_delivered(self, env, assignment_id) ==
    LET caller == env.caller
        e == load_escrow(self, assignment_id)
    IN  IF ~e.found THEN InkPanic(self)
        ELSE IF ~(caller = e.driver) THEN InkPanic(self)
        ELSE IF ~(e.status = STATUS_OPEN) THEN InkPanic(self)
        ELSE InkOk([self EXCEPT
                       !.statuses = Insert(@, assignment_id, STATUS_DELIVERED),
                       !.delivered_ats = Insert(@, assignment_id, env.block_timestamp)],
                   <<>>)

receiver_confirm(self, env, assignment_id) ==
    LET caller == env.caller
        e == load_escrow(self, assignment_id)
    IN  IF ~e.found THEN InkPanic(self)
        ELSE IF ~(caller = e.sender) THEN InkPanic(self)
        ELSE IF ~(e.status = STATUS_DELIVERED) THEN InkPanic(self)
        ELSE IF ~transfer(env, e.driver, e.amount) THEN InkPanic(self)
        ELSE InkOk([self EXCEPT !.statuses = Insert(@, assignment_id, STATUS_COMPLETED)],
                   <<[assignment_id |-> assignment_id, dest |-> e.driver,
                      amount |-> e.amount]>>)

\* variant: the timeout is not added to delivered_at
auto_release_if_timeout_early(self, env, assignment_id) ==
    LET e == load_escrow(self, assignment_id)
    IN  IF ~e.found THEN InkPanic(self)
        ELSE IF ~(e.status = STATUS_DELIVERED) THEN InkPanic(self)
        ELSE IF ~(e.delivered_at # U64(0, 0)) THEN InkPanic(self)
        ELSE
            LET deadline == e.delivered_at
            IN  IF ~U64Geq(env.block_timestamp, deadline) THEN InkPanic(self)
                ELSE IF ~transfer(env, e.driver, e.amount) THEN InkPanic(self)
                ELSE InkOk([self EXCEPT
                               !.statuses = Insert(@, assignment_id, STATUS_COMPLETED)],
                           <<[assignment_id |-> assignment_id, dest |-> e.driver,
                              amount |-> e.amount]>>)

auto_release_if_timeout(self, env, assignment_id) ==
    LET e == load_escrow(self, assignment_id)
    IN  IF ~e.found THEN InkPanic(self)
        ELSE IF ~(e.status = STATUS_DELIVERED) THEN InkPanic(self)
        ELSE IF ~(e.delivered_at # U64(0, 0)) THEN InkPanic(self)
        ELSE
            LET deadline == u64_saturating_add(e.delivered_at, e.timeout_ms)
            IN  IF ~U64Geq(env.block_timestamp, deadline) THEN InkPanic(self)
                ELSE IF ~transfer(env, e.driver, e.amount) THEN InkPanic(self)
                ELSE InkOk([self EXCEPT
                               !.statuses = Insert(@, assignment_id, STATUS_COMPLETED)],
                           <<[assignment_id |-> assignment_id, dest |-> e.driver,
                              amount |-> e.amount]>>)

cancel_before_delivered(self, env, assignment_id) ==
    LET caller == env.caller
        e == load_escrow(self, assignment_id)
    IN  IF ~e.found THEN InkPanic(self)
        ELSE IF ~(caller = e.sender) THEN InkPanic(self)
        ELSE IF ~(e.status = STATUS_OPEN) THEN InkPanic(self)
        ELSE IF ~transfer(env, e.sender, e.amount) THEN InkPanic(self)
        ELSE InkOk([self EXCEPT !.statuses = Insert(@, assignment_id, STATUS_CANCELLED)],
                   <<[assignment_id |-> assignment_id, dest |-> e.sender,
                      amount |-> e.amount]>>)

----------------------------------------------------------------------------
(* node/poba_worker: market types and helpers *)

MarketRequest(uuid_16, from_lat, from_lon, to_lat, to_lon, max_price_cents, kind, window_start, window_end) ==
    [uuid_16 |-> uuid_16, from_lat |-> from_lat, from_lon |-> from_lon,
     to_lat |-> to_lat, to_lon |-> to_lon, max_price_cents |-> max_price_cents,
     kind |-> kind, window_start |-> window_start, window_end |-> window_end]

MarketOffer(uuid_16, min_price_cents, from_lat, from_lon, to_lat, to_lon, window_start, window_end, types_mask) ==
    [uuid_16 |-> uuid_16, min_price_cents |-> min_price_cents, from_lat |-> from_lat,
     from_lon |-> from_lon, to_lat |-> to_lat, to_lon |-> to_lon,
     window_start |-> window_start, window_end |-> window_end, types_mask |-> types_mask]

MatchItem(request_uuid, offer_uuid, agreed_price_cents, partial_score) ==
    [request_uuid |-> request_uuid, offer_uuid |-> offer_uuid,
     agreed_price_cents |-> agreed_price_cents, partial_score |-> partial_score]

MinOf(a, b) == IF a <= b THEN a ELSE b
MaxOf(a, b) == IF a >= b THEN a ELSE b
Abs(a) == IF a < 0 THEN 0 - a ELSE a

\* the scoring and filter parameters read from the environment, at their defaults
\* (a distance cap of 0 is "no cap"; distances and alpha are in whole km)
DefaultEnv ==
    [base_score |-> 1000000, alpha_per_km |-> 1000, beta_per_cent |-> 1,
     skip_cost |-> 100000000, max_start_km |-> 0, max_end_km |-> 0, max_total_km |-> 0,
     require_time_overlap |-> TRUE, min_overlap_ms |-> 0, early_slack_ms |-> 0,
     late_slack_ms |-> 0]

kind_to_bit(kind) ==
    CASE kind = 0 -> 1
      [] kind = 1 -> 2
      [] OTHER -> 0

\* types_mask & r_bit, for r_bit a single bit
MaskAnd(types_mask, r_bit) == IF (types_mask \div r_bit) % 2 = 1 THEN r_bit ELSE 0

\* micro-degrees of latitude per km on the sphere of radius 6371 km (1e6 * 180 / (pi * 6371))
MicroDegPerKm == 8993

\* distance in whole km; exact up to rounding for two points on one meridian, which is
\* where the model puts the points that have coordinates
haversine_km(lat1_e6, lon1_e6, lat2_e6, lon2_e6) ==
    (Abs(lat2_e6 - lat1_e6) + Abs(lon2_e6 - lon1_e6) + (MicroDegPerKm \div 2)) \div MicroDegPerKm

\* variant: a missing (zero) bound admits the pair
intervals_overlap_ms_lenient(a_start, a_end, b_start, b_end, min_olap_ms, early_slack_ms, late_slack_ms, require_overlap) ==
    IF a_start = 0 \/ a_end = 0 \/ b_start = 0 \/ b_end = 0
    THEN TRUE
    ELSE
        LET a_s == a_start
            a_e == a_end
            b_s == b_start - early_slack_ms
            b_e == b_end + late_slack_ms
            overlap == MinOf(a_e, b_e) - MaxOf(a_s, b_s)
        IN  overlap >= MaxOf(0, min_olap_ms)

\* variant: windows that only touch do not overlap (> for >=)
intervals_overlap_ms_strict(a_start, a_end, b_start, b_end, min_olap_ms, early_slack_ms, late_slack_ms, require_overlap) ==
    IF a_start = 0 \/ a_end = 0 \/ b_start = 0 \/ b_end = 0
    THEN ~require_overlap
    ELSE
        LET a_s == a_start
            a_e == a_end
            b_s == b_start - early_slack_ms
            b_e == b_end + late_slack_ms
            overlap == MinOf(a_e, b_e) - MaxOf(a_s, b_s)
        IN  overlap > MaxOf(0, min_olap_ms)

intervals_overlap_ms(a_start, a_end, b_start, b_end, min_olap_ms, early_slack_ms, late_slack_ms, require_overlap) ==
    IF a_start = 0 \/ a_end = 0 \/ b_start = 0 \/ b_end = 0
    THEN ~require_overlap
    ELSE
        LET a_s == a_start
            a_e == a_end
            b_s == b_start - early_slack_ms
            b_e == b_end + late_slack_ms
            overlap == MinOf(a_e, b_e) - MaxOf(a_s, b_s)
        IN  overlap >= MaxOf(0, min_olap_ms)

----------------------------------------------------------------------------
(* node/poba_worker: compute_matches_for_market *)

\* the solver's "infinity": 10^12 in the source, held here at the largest round value
\* that TLC's integers carry; every cost of the model is below it as it is below 10^12
inf == 2000000000

\* Option<usize>::None for an offer index (offers are numbered from 1 here)
None == 0

\* variant: the score is not floored at 0
PairEntry_unfloored(env, r, o) ==
    LET r_bit == kind_to_bit(r.kind)
        req_max_cents == r.max_price_cents
        off_min_cents == o.min_price_cents
        coord_missing ==
            \/ r.from_lat = 0 \/ r.from_lon = 0 \/ r.to_lat = 0 \/ r.to_lon = 0
            \/ o.from_lat = 0 \/ o.from_lon = 0 \/ o.to_lat = 0 \/ o.to_lon = 0
        any_cap == env.max_start_km > 0 \/ env.max_end_km > 0 \/ env.max_total_km > 0
        d_start == IF coord_missing THEN 0
                   ELSE haversine_km(r.from_lat, r.from_lon, o.from_lat, o.from_lon)
        d_end == IF coord_missing THEN 0
                 ELSE haversine_km(r.to_lat, r.to_lon, o.to_lat, o.to_lon)
        d_total == d_start + d_end
        agreed_cents == IF req_max_cents > 0
                        THEN (off_min_cents + req_max_cents) \div 2
                        ELSE off_min_cents
        p_cents == MaxOf(1, agreed_cents)
        penalty == env.alpha_per_km * d_total + env.beta_per_cent * p_cents
        score == env.base_score - penalty
        dropped(by) == [filtered_by |-> by, cost |-> inf, partial_score |-> 0,
                        price_agreed |-> 0]
    IN  IF r_bit # 0 /\ MaskAnd(o.types_mask, r_bit) = 0 THEN dropped("type")
        ELSE IF req_max_cents > 0 /\ off_min_cents > req_max_cents THEN dropped("price")
        ELSE IF env.require_time_overlap
                /\ ~intervals_overlap_ms(r.window_start, r.window_end, o.window_start,
                                         o.window_end, env.min_overlap_ms,
                                         env.early_slack_ms, env.late_slack_ms,
                                         env.require_time_overlap)
             THEN dropped("time")
        ELSE IF coord_missing /\ any_cap THEN dropped("distance")
        ELSE IF env.max_start_km > 0 /\ d_start > env.max_start_km THEN dropped("distance")
        ELSE IF env.max_end_km > 0 /\ d_end > env.max_end_km THEN dropped("distance")
        ELSE IF env.max_total_km > 0 /\ d_total > env.max_total_km THEN dropped("distance")
        ELSE [filtered_by |-> "none", cost |-> penalty, partial_score |-> score,
              price_agreed |-> p_cents]
\* variant: the agreed price is not raised to 1
PairEntry_price_unfloored(env, r, o) ==
    LET r_bit == kind_to_bit(r.kind)
        req_max_cents == r.max_price_cents
        off_min_cents == o.min_price_cents
        coord_missing ==
            \/ r.from_lat = 0 \/ r.from_lon = 0 \/ r.to_lat = 0 \/ r.to_lon = 0
            \/ o.from_lat = 0 \/ o.from_lon = 0 \/ o.to_lat = 0 \/ o.to_lon = 0
        any_cap == env.max_start_km > 0 \/ env.max_end_km > 0 \/ env.max_total_km > 0
        d_start == IF coord_missing THEN 0
                   ELSE haversine_km(r.from_lat, r.from_lon, o.from_lat, o.from_lon)
        d_end == IF coord_missing THEN 0
                 ELSE haversine_km(r.to_lat, r.to_lon, o.to_lat, o.to_lon)
        d_total == d_start + d_end
        agreed_cents == IF req_max_cents > 0
                        THEN (off_min_cents + req_max_cents) \div 2
                        ELSE off_min_cents
        p_cents == agreed_cents
        penalty == env.alpha_per_km * d_total + env.beta_per_cent * p_cents
        score == MaxOf(0, env.base_score - penalty)
        dropped(by) == [filtered_by |-> by, cost |-> inf, partial_score |-> 0,
                        price_agreed |-> 0]
    IN  IF r_bit # 0 /\ MaskAnd(o.types_mask, r_bit) = 0 THEN dropped("type")
        ELSE IF req_max_cents > 0 /\ off_min_cents > req_max_cents THEN dropped("price")
        ELSE IF env.require_time_overlap
                /\ ~intervals_overlap_ms(r.window_start, r.window_end, o.window_start,
                                         o.window_end, env.min_overlap_ms,
                                         env.early_slack_ms, env.late_slack_ms,
                                         env.require_time_overlap)
             THEN dropped("time")
        ELSE IF coord_missing /\ any_cap THEN dropped("distance")
        ELSE IF env.max_start_km > 0 /\ d_start > env.max_start_km THEN dropped("distance")
        ELSE IF env.max_end_km > 0 /\ d_end > env.max_end_km THEN dropped("distance")
        ELSE IF env.max_total_km > 0 /\ d_total > env.max_total_km THEN dropped("distance")
        ELSE [filtered_by |-> "none", cost |-> penalty, partial_score |-> score,
              price_agreed |-> p_cents]

\* the body of the filter loop for one pair: which filter dropped it ("none": feasible),
\* and the cost, partial_score and agreed price it enters in the tables
PairEntry(env, r, o) ==
    LET r_bit == kind_to_bit(r.kind)
        req_max_cents == r.max_price_cents
        off_min_cents == o.min_price_cents
        coord_missing ==
            \/ r.from_lat = 0 \/ r.from_lon = 0 \/ r.to_lat = 0 \/ r.to_lon = 0
            \/ o.from_lat = 0 \/ o.from_lon = 0 \/ o.to_lat = 0 \/ o.to_lon = 0
        any_cap == env.max_start_km > 0 \/ env.max_end_km > 0 \/ env.max_total_km > 0
        d_start == IF coord_missing THEN 0
                   ELSE haversine_km(r.from_lat, r.from_lon, o.from_lat, o.from_lon)
        d_end == IF coord_missing THEN 0
                 ELSE haversine_km(r.to_lat, r.to_lon, o.to_lat, o.to_lon)
        d_total == d_start + d_end
        agreed_cents == IF req_max_cents > 0
                        THEN (off_min_cents + req_max_cents) \div 2
                        ELSE off_min_cents
        p_cents == MaxOf(1, agreed_cents)
        penalty == env.alpha_per_km * d_total + env.beta_per_cent * p_cents
        score == MaxOf(0, env.base_score - penalty)
        dropped(by) == [filtered_by |-> by, cost |-> inf, partial_score |-> 0,
                        price_agreed |-> 0]
    IN  IF r_bit # 0 /\ MaskAnd(o.types_mask, r_bit) = 0 THEN dropped("type")
        ELSE IF req_max_cents > 0 /\ off_min_cents > req_max_cents THEN dropped("price")
        ELSE IF env.require_time_overlap
                /\ ~intervals_overlap_ms(r.window_start, r.window_end, o.window_start,
                                         o.window_end, env.min_overlap_ms,
                                         env.early_slack_ms, env.late_slack_ms,
                                         env.require_time_overlap)
             THEN dropped("time")
        ELSE IF coord_missing /\ any_cap THEN dropped("distance")
        ELSE IF env.max_start_km > 0 /\ d_start > env.max_start_km THEN dropped("distance")
        ELSE IF env.max_end_km > 0 /\ d_end > env.max_end_km THEN dropped("distance")
        ELSE IF env.max_total_km > 0 /\ d_total > env.max_total_km THEN dropped("distance")
        ELSE [filtered_by |-> "none", cost |-> penalty, partial_score |-> score,
              price_agreed |-> p_cents]

\* the three N x M tables (and the filter that dropped each pair)
PairTable(env, requests, offers) ==
    [i \in 1..Len(requests) |-> [j \in 1..Len(offers) |->
        PairEntry(env, requests[i], offers[j])]]

\* width of used_mask (u64)
WordBits == 64

\* bit of offer j in the u64 used_mask.  Without overflow checks (release profile) a
\* shift amount is taken modulo the width; with them the shift panics, see shift_overflows
MaskBit(j) == (j - 1) % WordBits

\* the branch-and-bound search; `best` is [cost, assign], the pair (best_cost, best_assign)
RECURSIVE dfs(_, _, _, _, _, _, _)
RECURSIVE dfs_offer(_, _, _, _, _, _, _, _)
RECURSIVE dfs_offers(_, _, _, _, _, _, _, _, _)
\* variant: the skip of a request is explored before its matches
dfs_skip_first(i, used_mask, acc_cost, table, skip_cost, current_assign, best) ==
    LET n == Len(table)
    IN  IF i = n + 1
        THEN IF acc_cost < best.cost
             THEN [cost |-> acc_cost, assign |-> current_assign]
             ELSE best
        ELSE IF acc_cost >= best.cost THEN best
        ELSE
            LET new_cost == acc_cost + skip_cost
                after_skip ==
                    IF new_cost < best.cost
                    THEN dfs(i + 1, used_mask, new_cost, table, skip_cost,
                             [current_assign EXCEPT ![i] = None], best)
                    ELSE best
            IN  dfs_offers(1, Len(table[i]), i, used_mask, acc_cost, table, skip_cost,
                           current_assign, after_skip)

dfs(i, used_mask, acc_cost, table, skip_cost, current_assign, best) ==
    LET n == Len(table)
    IN  IF i = n + 1
        THEN IF acc_cost < best.cost
             THEN [cost |-> acc_cost, assign |-> current_assign]
             ELSE best
        ELSE IF acc_cost >= best.cost THEN best
        ELSE
            LET after_matches ==
                    dfs_offers(1, Len(table[i]), i, used_mask, acc_cost, table, skip_cost,
                               current_assign, best)
                new_cost == acc_cost + skip_cost
            IN  IF new_cost < after_matches.cost
                THEN dfs(i + 1, used_mask, new_cost, table, skip_cost,
                         [current_assign EXCEPT ![i] = None], after_matches)
                ELSE after_matches

\* variant: the loop body without the test of used_mask
dfs_offer_reuse(j, i, used_mask, acc_cost, table, skip_cost, current_assign, best) ==
    LET c_ij == table[i][j].cost
        new_cost == acc_cost + c_ij
    IN  IF c_ij >= inf THEN best
        ELSE IF new_cost >= best.cost THEN best
        ELSE dfs(i + 1, used_mask \cup {MaskBit(j)}, new_cost, table, skip_cost,
                 [current_assign EXCEPT ![i] = j], best)

\* the body of the loop `for j in 0..m` of dfs, for one offer j
dfs_offer(j, i, used_mask, acc_cost, table, skip_cost, current_assign, best) ==
    LET c_ij == table[i][j].cost
        new_cost == acc_cost + c_ij
    IN  IF MaskBit(j) \in used_mask THEN best
        ELSE IF c_ij >= inf THEN best
        ELSE IF new_cost >= best.cost THEN best
        ELSE dfs(i + 1, used_mask \cup {MaskBit(j)}, new_cost, table, skip_cost,
                 [current_assign EXCEPT ![i] = j], best)

\* the loop `for j in 0..m` of dfs over the offers lo..hi in increasing order (the
\* range is walked in two halves, lower half first, to keep the evaluation shallow)
dfs_offers(lo, hi, i, used_mask, acc_cost, table, skip_cost, current_assign, best) ==
    IF lo > hi THEN best
    ELSE IF lo = hi
         THEN dfs_offer(lo, i, used_mask, acc_cost, table, skip_cost, current_assign, best)
         ELSE
            LET mid == (lo + hi) \div 2
                lower == dfs_offers(lo, mid, i, used_mask, acc_cost, table, skip_cost,
                                    current_assign, best)
            IN  \* (the test only orders the evaluation: lower half first)
                IF lower.cost <= inf
                THEN dfs_offers(mid + 1, hi, i, used_mask, acc_cost, table, skip_cost,
                                current_assign, lower)
                ELSE lower

\* "Rebuild matches + total_score", from request i on
RECURSIVE rebuild(_, _, _, _, _)
rebuild(i, best_assign, table, requests, offers) ==
    IF i = Len(requests) + 1 THEN [total_score |-> 0, matches |-> <<>>]
    ELSE
        LET rest == rebuild(i + 1, best_assign, table, requests, offers)
            j == best_assign[i]
        IN  IF j = None THEN rest
            ELSE [total_score |-> table[i][j].partial_score + rest.total_score,
                  matches |-> <<MatchItem(requests[i].uuid_16, offers[j].uuid_16,
                                          table[i][j].price_agreed,
                                          table[i][j].partial_score)>> \o rest.matches]

compute_matches_for_market(env, slot, requests, offers) ==
    LET n == Len(requests)
        m == Len(offers)
    IN  IF n = 0 \/ m = 0 THEN [total_score |-> 0, matches |-> <<>>]
        ELSE
            LET table == PairTable(env, requests, offers)
                found == dfs(1, {}, 0, table, env.skip_cost, [i \in 1..n |-> None],
                             [cost |-> inf, assign |-> [i \in 1..n |-> None]])
            IN  IF found.cost >= inf THEN [total_score |-> 0, matches |-> <<>>]
                ELSE rebuild(1, found.assign, table, requests, offers)

----------------------------------------------------------------------------
(* node/poba_worker: inputs of compute_matches_for_market run on its own *)

\* `used_mask >> j` is evaluated with j = 64: the first call of dfs (i = 0, acc_cost = 0)
\* runs its loop over every offer.  With overflow checks (debug profile) this panics
shift_overflows(requests, offers) == Len(requests) > 0 /\ Len(offers) > WordBits

\* points with coordinates lie on the meridian lon = MicroDegPerKm, k km from the origin
Lat(k) == k * MicroDegPerKm
Lon == MicroDegPerKm

\* requests tried (uuid filled in by position): a package without coordinates; a capped
\* passenger; an unknown kind, uncapped; a package with a late window
RequestShapes ==
    { MarketRequest("", 0, 0, 0, 0, 1000, 0, 1000, 10000),
      MarketRequest("", Lat(1), Lon, Lat(3), Lon, 400, 1, 1000, 10000),
      MarketRequest("", Lat(2), Lon, Lat(2), Lon, 0, 2, 1000, 10000),
      MarketRequest("", Lat(1), Lon, Lat(1), Lon, 1000, 0, 20000, 30000) }

\* offers tried: both types without coordinates; packages only, long window; passengers
\* only, free; no type and no window
OfferShapes ==
    { MarketOffer("", 500, 0, 0, 0, 0, 1000, 10000, 3),
      MarketOffer("", 300, Lat(1), Lon, Lat(2), Lon, 5000, 25000, 1),
      MarketOffer("", 0, Lat(3), Lon, Lat(3), Lon, 1000, 10000, 2),
      MarketOffer("", 500, Lat(1), Lon, Lat(1), Lon, 0, 0, 0) }

RequestName(i) == "R" \o ToString(i)
OfferName(j) == "O" \o ToString(j)

NamedRequests(shapes) ==
    [k \in DOMAIN shapes |-> [shapes[k] EXCEPT !.uuid_16 = RequestName(k)]]
NamedOffers(shapes) ==
    [k \in DOMAIN shapes |-> [shapes[k] EXCEPT !.uuid_16 = OfferName(k)]]

RequestLists ==
    UNION { {NamedRequests(s) : s \in [1..n -> RequestShapes]} : n \in 0..MaxRequests }
OfferLists ==
    UNION { {NamedOffers(s) : s \in [1..m -> OfferShapes]} : m \in 0..MaxOffers }

\* one offer more than used_mask has bits: two packages, the first and the last offer
\* take packages, the offers between take nothing
WideMarket ==
    [requests |-> NamedRequests(<<MarketRequest("", 0, 0, 0, 0, 1000, 0, 1000, 10000),
                                  MarketRequest("", 0, 0, 0, 0, 1000, 0, 1000, 10000)>>),
     offers |-> NamedOffers([j \in 1..(WordBits + 1) |->
                    IF j = 1 THEN MarketOffer("", 500, 0, 0, 0, 0, 1000, 10000, 3)
                    ELSE IF j = WordBits + 1
                         THEN MarketOffer("", 300, 0, 0, 0, 0, 1000, 10000, 3)
                         ELSE MarketOffer("", 500, 0, 0, 0, 0, 0, 0, 0)])]

\* one package request (max 1000) and one packages-only offer (min 500), no coordinates,
\* both with the window [window_start, 10000]
SingleMatchMarket(window_start) ==
    [requests |-> <<MarketRequest("R1", 0, 0, 0, 0, 1000, 0, window_start, 10000)>>,
     offers |-> <<MarketOffer("O1", 500, 0, 0, 0, 0, window_start, 10000, 1)>>]

SolverMarkets ==
    {[requests |-> rs, offers |-> os] : rs \in RequestLists, os \in OfferLists}
        \cup {WideMarket, SingleMatchMarket(0), SingleMatchMarket(1000)}

\* environments tried: the defaults; distance caps and a minimal overlap; no time
\* requirement with a small base score and cheap skips
SolverEnvs ==
    { DefaultEnv,
      [DefaultEnv EXCEPT !.max_start_km = 1, !.max_end_km = 1, !.max_total_km = 2,
                         !.min_overlap_ms = 1000],
      [DefaultEnv EXCEPT !.require_time_overlap = FALSE, !.base_score = 500,
                         !.alpha_per_km = 100, !.skip_cost = 750] }

NoSolverInput ==
    [env |-> DefaultEnv, market |-> [requests |-> <<>>, offers |-> <<>>],
     overflow_checks |-> FALSE]
NoSolution == [state |-> "idle", total_score |-> 0, matches |-> <<>>]

----------------------------------------------------------------------------
(* The ledger as a state machine: one extrinsic dispatched per step *)

\* one node per account; POBA_PROPOSER_ID is the account the backend signs with
Workers == Accounts

ApplyPoba(name, r) ==
    /\ BestProposal' = r.BestProposal
    /\ FinalizedProposal' = r.FinalizedProposal
    /\ LastFinalizedSlot' = r.LastFinalizedSlot
    /\ events' = r.events
    /\ lastCall' = [name |-> name, result |-> r.result]
    /\ nCalls' = nCalls + 1
    /\ UNCHANGED <<escrowVars, block_number>>

\* history: an accepted submission is recorded under its slot
Record(r, slot, total_score) ==
    submitted' = IF r.result = Ok
                 THEN [submitted EXCEPT ![slot] = Append(@, total_score)]
                 ELSE submitted

ApplyEscrow(name, r) ==
    /\ NextEscrowId' = r.NextEscrowId
    /\ Escrows' = r.Escrows
    /\ RequestToEscrow' = r.RequestToEscrow
    /\ events' = r.events
    /\ lastCall' = [name |-> name, result |-> r.result]
    /\ nCalls' = nCalls + 1
    /\ UNCHANGED <<pobaVars, block_number, submitted>>

SubmitProposal(who, slot, total_score, matches) ==
    LET r == submit_proposal(who, slot, total_score, matches)
    IN  /\ nCalls < MaxCalls
        /\ ApplyPoba("submit_proposal", r)
        /\ Record(r, slot, total_score)
        /\ UNCHANGED <<workerVars, solverVars, contractVars>>

FinalizeSlot(who, slot) ==
    LET r == finalize_slot(who, slot)
    IN  /\ nCalls < MaxCalls
        /\ ApplyPoba("finalize_slot", r)
        /\ UNCHANGED <<submitted, workerVars, solverVars, contractVars>>

CreateEscrow(who, request_uuid, offer_uuid, driver, payer, amount) ==
    /\ nCalls < MaxCalls
    /\ ApplyEscrow("create_escrow",
                   create_escrow(who, request_uuid, offer_uuid, driver, payer, amount))
    /\ UNCHANGED <<workerVars, solverVars, contractVars>>

MarkPickedUp(who, escrow_id) ==
    /\ nCalls < MaxCalls
    /\ ApplyEscrow("mark_picked_up", mark_picked_up(who, escrow_id))
    /\ UNCHANGED <<workerVars, solverVars, contractVars>>

MarkDelivered(who, escrow_id) ==
    /\ nCalls < MaxCalls
    /\ ApplyEscrow("mark_delivered", mark_delivered(who, escrow_id))
    /\ UNCHANGED <<workerVars, solverVars, contractVars>>

ConfirmReceived(who, escrow_id) ==
    /\ nCalls < MaxCalls
    /\ ApplyEscrow("confirm_received", confirm_received(who, escrow_id))
    /\ UNCHANGED <<workerVars, solverVars, contractVars>>

ReleaseEscrow(who, request_uuid, offer_uuid) ==
    /\ nCalls < MaxCalls
    /\ ApplyEscrow("release_escrow", release_escrow(who, request_uuid, offer_uuid))
    /\ UNCHANGED <<workerVars, solverVars, contractVars>>

ForceTimeoutRelease(who, escrow_id) ==
    /\ nCalls < MaxCalls
    /\ ApplyEscrow("force_timeout_release", force_timeout_release(who, escrow_id))
    /\ UNCHANGED <<workerVars, solverVars, contractVars>>

\* the chain starts executing its next block (frame_system resets the block's events)
NextBlock ==
    /\ block_number < MaxBlock
    /\ block_number' = block_number + 1
    /\ events' = <<>>
    /\ lastCall' = [name |-> "on_initialize", result |-> Ok]
    /\ UNCHANGED <<pobaVars, escrowVars, submitted, nCalls, workerVars, solverVars, contractVars>>

\* genesis: every storage item at its default, block 0
Init ==
    /\ BestProposal = <<>>
    /\ FinalizedProposal = <<>>
    /\ LastFinalizedSlot = 0
    /\ NextEscrowId = 0
    /\ Escrows = <<>>
    /\ RequestToEscrow = <<>>
    /\ block_number = 0
    /\ events = <<>>
    /\ lastCall = [name |-> "none", result |-> Ok]
    /\ submitted = [s \in Slots \cup (0..MaxBlock) |-> <<>>]
    /\ nCalls = 0
    /\ market = [requests |-> <<>>, offers |-> <<>>]
    /\ nMarketChanges = 0
    /\ finalize_lag_slots = 0
    /\ wpc = [w \in Workers |-> "fetch"]
    /\ wslot = [w \in Workers |-> 0]
    /\ wproposal = [w \in Workers |-> [total_score |-> 0, matches |-> <<>>]]
    /\ last_finalized_slot_local = [w \in Workers |-> 0]
    /\ solverInput = NoSolverInput
    /\ solution = NoSolution
    /\ contract = new(FALSE)
    /\ validation = NoValidation
    /\ ink_env = NoInkEnv
    /\ transfers = <<>>
    /\ inkCall = NoInkCall
    /\ nInkCalls = 0

NextPoba ==
    \/ \E who \in Accounts, slot \in Slots, total_score \in Scores, matches \in MatchVecs :
           SubmitProposal(who, slot, total_score, matches)
    \/ \E who \in Accounts, slot \in Slots : FinalizeSlot(who, slot)

SpecPoba == Init /\ [][NextPoba]_vars

NextEscrow ==
    \/ \E who \in Accounts, request_uuid \in RequestUuids, offer_uuid \in OfferUuids,
          driver \in Accounts, payer \in Accounts, amount \in Amounts :
           CreateEscrow(who, request_uuid, offer_uuid, driver, payer, amount)
    \/ \E who \in Accounts, escrow_id \in EscrowIds : MarkPickedUp(who, escrow_id)
    \/ \E who \in Accounts, escrow_id \in EscrowIds : MarkDelivered(who, escrow_id)
    \/ \E who \in Accounts, escrow_id \in EscrowIds : ConfirmReceived(who, escrow_id)
    \/ \E who \in Accounts, request_uuid \in RequestUuids, offer_uuid \in OfferUuids :
           ReleaseEscrow(who, request_uuid, offer_uuid)
    \/ \E who \in Accounts, escrow_id \in EscrowIds : ForceTimeoutRelease(who, escrow_id)
    \/ NextBlock

SpecEscrow == Init /\ [][NextEscrow]_vars

\* the escrows whose status is not final
OpenEscrows == {id \in DOMAIN Escrows : ~is_final_status(Escrows[id].status)}

\* block numbers keep growing: the chain executes its next block for as long as an
\* escrow waits for its deadline
BlockGrows ==
    /\ \E id \in OpenEscrows : block_number < Escrows[id].deadline
    /\ block_number' = block_number + 1
    /\ events' = <<>>
    /\ lastCall' = [name |-> "on_initialize", result |-> Ok]
    /\ UNCHANGED <<pobaVars, escrowVars, submitted, nCalls, workerVars, solverVars, contractVars>>

\* somebody calls force_timeout_release for an escrow that is not final and whose
\* deadline has come (each escrow admits one such call: they need no bound)
TimeoutCallDue(who, escrow_id) ==
    /\ escrow_id \in OpenEscrows
    /\ block_number >= Escrows[escrow_id].deadline
    /\ ApplyEscrow("force_timeout_release", force_timeout_release(who, escrow_id))
    /\ UNCHANGED <<workerVars, solverVars, contractVars>>

NextEscrowLive ==
    \/ NextEscrow
    \/ BlockGrows
    \/ \E who \in Accounts, escrow_id \in EscrowIds : TimeoutCallDue(who, escrow_id)

\* the escrow pallet on a chain whose blocks keep coming, with a caller who sends
\* force_timeout_release for every escrow that is due
SpecEscrowLive ==
    /\ Init
    /\ [][NextEscrowLive]_vars
    /\ WF_vars(BlockGrows)
    /\ \A escrow_id \in EscrowIds :
           WF_vars(\E who \in Accounts : TimeoutCallDue(who, escrow_id))

\* both pallets in one runtime
Next == nCalls < MaxLedgerCalls /\ (NextPoba \/ NextEscrow)

Spec == Init /\ [][Next]_vars

----------------------------------------------------------------------------
(* node/poba_worker: the worker loop, one worker per authority node *)

\* POBA_ROLE of each node: one designated finalizer, the others proposers
is_finalizer(w) == w = "Alice"

\* the market snapshots the backend serves (no coordinates, windows that overlap)
RequestR1 == MarketRequest("R1", 0, 0, 0, 0, 1000, 0, 1000, 10000)
RequestR2 == MarketRequest("R2", 0, 0, 0, 0, 900, 1, 1000, 10000)
OfferO1 == MarketOffer("O1", 500, 0, 0, 0, 0, 1000, 10000, 3)
OfferO2 == MarketOffer("O2", 300, 0, 0, 0, 0, 2000, 9000, 3)
\* an offer for passengers only: no package request can be matched with it
OfferO3 == MarketOffer("O3", 300, 0, 0, 0, 0, 1000, 10000, 2)
Markets ==
    { [requests |-> <<>>, offers |-> <<>>],
      [requests |-> <<RequestR1>>, offers |-> <<OfferO3>>],
      [requests |-> <<RequestR1>>, offers |-> <<OfferO1>>],
      [requests |-> <<RequestR1>>, offers |-> <<OfferO1, OfferO2>>],
      [requests |-> <<RequestR1, RequestR2>>, offers |-> <<OfferO1, OfferO2>>] }

\* POST /poba/submit-proposal?proposer_id=<id>: a signed submit_proposal call
relay_submit_proposal(proposer_id, body) ==
    submit_proposal(proposer_id, body.slot, body.total_score,
                    [k \in 1..Len(body.matches) |->
                        <<body.matches[k].request_uuid, body.matches[k].offer_uuid,
                          body.matches[k].agreed_price_cents,
                          body.matches[k].partial_score>>])

\* POST /poba/finalize-slot?proposer_id=<id>, body {slot}: a signed finalize_slot call
relay_finalize_slot(proposer_id, slot) == finalize_slot(proposer_id, slot)

\* slot.saturating_sub(lag_slots)
FinalizeTarget(slot) == IF slot >= finalize_lag_slots THEN slot - finalize_lag_slots ELSE 0

\* variant: a slot equal to last_finalized_slot_local is posted again (>= for >)
AfterSubmit_ge(w, slot, last_local) ==
    IF /\ is_finalizer(w)
       /\ FinalizeTarget(slot) > 0
       /\ FinalizeTarget(slot) >= last_local
    THEN "finalize"
    ELSE "fetch"

\* step 4 of the loop, as far as its condition: the worker sends a finalize request
\* next, or sleeps and starts the next iteration
AfterSubmit(w, slot, last_local) ==
    IF /\ is_finalizer(w)
       /\ FinalizeTarget(slot) > 0
       /\ FinalizeTarget(slot) > last_local
    THEN "finalize"
    ELSE "fetch"

\* the backend's market changes (requests and offers are opened and closed off-chain)
MarketChange ==
    /\ nMarketChanges < MaxMarketChanges
    /\ \E mk \in Markets \ {market} : market' = mk
    /\ nMarketChanges' = nMarketChanges + 1
    /\ UNCHANGED <<pobaVars, escrowVars, block_number, events, lastCall, submitted, nCalls,
                   finalize_lag_slots, wpc, wslot, wproposal, last_finalized_slot_local,
                   solverVars, contractVars>>

\* variant: the proposal is posted whether or not it has matches
WorkerFetch_always_submit(w) ==
    /\ wpc[w] = "fetch"
    /\ market.requests # <<>>
    /\ market.offers # <<>>
    /\ LET slot == block_number
           proposal == compute_matches_for_market(DefaultEnv, slot, market.requests,
                                                  market.offers)
       IN  /\ wslot' = [wslot EXCEPT ![w] = slot]
           /\ wproposal' = [wproposal EXCEPT ![w] = proposal]
           /\ wpc' = [wpc EXCEPT ![w] = "submit"]
    /\ UNCHANGED <<pobaVars, escrowVars, block_number, events, lastCall, submitted, nCalls,
                   market, nMarketChanges, finalize_lag_slots, last_finalized_slot_local,
                   solverVars, contractVars>>

\* steps 1 and 2 of an iteration: both GETs answer with a non-empty market, the slot is
\* read from the best block and the assignment is computed.  (A failed GET or an empty
\* list sleeps and starts over: no change of state.)
WorkerFetch(w) ==
    /\ wpc[w] = "fetch"
    /\ market.requests # <<>>
    /\ market.offers # <<>>
    /\ LET slot == block_number
           proposal == compute_matches_for_market(DefaultEnv, slot, market.requests,
                                                  market.offers)
       IN  /\ wslot' = [wslot EXCEPT ![w] = slot]
           /\ wproposal' = [wproposal EXCEPT ![w] = proposal]
           /\ wpc' = [wpc EXCEPT ![w] =
                        IF proposal.matches = <<>>
                        THEN AfterSubmit(w, slot, last_finalized_slot_local[w])
                        ELSE "submit"]
    /\ UNCHANGED <<pobaVars, escrowVars, block_number, events, lastCall, submitted, nCalls,
                   market, nMarketChanges, finalize_lag_slots, last_finalized_slot_local,
                   solverVars, contractVars>>

\* step 3: POST submit-proposal.  The worker only logs the answer; the request reached
\* the backend (dispatched) or the transport failed before it did
WorkerSubmit(w, dispatched) ==
    /\ wpc[w] = "submit"
    /\ LET body == [slot |-> wslot[w], total_score |-> wproposal[w].total_score,
                    matches |-> wproposal[w].matches]
           r == relay_submit_proposal(w, body)
       IN  IF dispatched
           THEN /\ nCalls < MaxCalls
                /\ ApplyPoba("submit_proposal", r)
                /\ Record(r, body.slot, body.total_score)
           ELSE UNCHANGED <<pobaVars, escrowVars, block_number, events, lastCall,
                            submitted, nCalls>>
    /\ wpc' = [wpc EXCEPT ![w] = AfterSubmit(w, wslot[w], last_finalized_slot_local[w])]
    /\ UNCHANGED <<market, nMarketChanges, finalize_lag_slots, wslot, wproposal,
                   last_finalized_slot_local, solverVars, contractVars>>

\* step 4: POST finalize-slot.  Any HTTP answer, success status or not, moves
\* last_finalized_slot_local; a transport error leaves it for the next iteration
WorkerFinalize(w, dispatched, answered) ==
    /\ wpc[w] = "finalize"
    /\ answered => dispatched
    /\ LET target == FinalizeTarget(wslot[w])
           r == relay_finalize_slot(w, target)
       IN  /\ IF dispatched
              THEN /\ nCalls < MaxCalls
                   /\ ApplyPoba("finalize_slot", r)
                   /\ UNCHANGED submitted
              ELSE UNCHANGED <<pobaVars, escrowVars, block_number, events, lastCall,
                               submitted, nCalls>>
           /\ last_finalized_slot_local' =
                  IF answered
                  THEN [last_finalized_slot_local EXCEPT ![w] = target]
                  ELSE last_finalized_slot_local
    /\ wpc' = [wpc EXCEPT ![w] = "fetch"]
    /\ UNCHANGED <<market, nMarketChanges, finalize_lag_slots, wslot, wproposal, solverVars, contractVars>>

\* the nodes start with the chain at genesis; the finalizer's lag is 0 or 1
InitWorker ==
    /\ BestProposal = <<>>
    /\ FinalizedProposal = <<>>
    /\ LastFinalizedSlot = 0
    /\ NextEscrowId = 0
    /\ Escrows = <<>>
    /\ RequestToEscrow = <<>>
    /\ block_number = 0
    /\ events = <<>>
    /\ lastCall = [name |-> "none", result |-> Ok]
    /\ submitted = [s \in Slots \cup (0..MaxBlock) |-> <<>>]
    /\ nCalls = 0
    /\ market \in Markets
    /\ nMarketChanges = 0
    /\ finalize_lag_slots \in {0, 1}
    /\ wpc = [w \in Workers |-> "fetch"]
    /\ wslot = [w \in Workers |-> 0]
    /\ wproposal = [w \in Workers |-> [total_score |-> 0, matches |-> <<>>]]
    /\ last_finalized_slot_local = [w \in Workers |-> 0]
    /\ solverInput = NoSolverInput
    /\ solution = NoSolution
    /\ contract = new(FALSE)
    /\ validation = NoValidation
    /\ ink_env = NoInkEnv
    /\ transfers = <<>>
    /\ inkCall = NoInkCall
    /\ nInkCalls = 0

NextWorker ==
    \/ \E w \in Workers : WorkerFetch(w)
    \/ \E w \in Workers, dispatched \in BOOLEAN : WorkerSubmit(w, dispatched)
    \/ \E w \in Workers, dispatched \in BOOLEAN, answered \in BOOLEAN :
           WorkerFinalize(w, dispatched, answered)
    \/ MarketChange
    \/ NextBlock

SpecWorker == InitWorker /\ [][NextWorker]_vars

----------------------------------------------------------------------------
(* contracts/escrow: calls of the contract *)

\* u128 values tried: 0, 1, 2, u128::MAX - 1, u128::MAX
U128Values == {U128(0, 0), U128(0, 1), U128(0, 2), U128(1, 0 - 1), U128Max}
RequestIds == {1, 2}

AssignmentInputs ==
    {AssignmentInput(request_id, driver, pair_score) :
        request_id \in RequestIds, driver \in Accounts, pair_score \in U128Values}
AssignmentVecs == UNION {[1..n -> AssignmentInputs] : n \in 0..MaxAssignments}

Flip ==
    /\ contract' = flip(contract)
    /\ UNCHANGED <<pobaVars, escrowVars, block_number, events, lastCall, submitted, nCalls,
                   workerVars, solverVars, validation, ink_env, transfers, inkCall,
                   nInkCalls>>

\* a call of validate_winner; the contract's storage is what it was (&self)
ValidateWinner(winner_total_score, assignments) ==
    /\ validation' = [state |-> "returned", winner_total_score |-> winner_total_score,
                      assignments |-> assignments,
                      answer |-> validate_winner(contract, winner_total_score, assignments)]
    /\ UNCHANGED <<pobaVars, escrowVars, block_number, events, lastCall, submitted, nCalls,
                   workerVars, solverVars, contract, ink_env, transfers, inkCall,
                   nInkCalls>>

\* the contract is instantiated by new(init_value) or default()
InitContract ==
    /\ BestProposal = <<>>
    /\ FinalizedProposal = <<>>
    /\ LastFinalizedSlot = 0
    /\ NextEscrowId = 0
    /\ Escrows = <<>>
    /\ RequestToEscrow = <<>>
    /\ block_number = 0
    /\ events = <<>>
    /\ lastCall = [name |-> "none", result |-> Ok]
    /\ submitted = [s \in Slots \cup (0..MaxBlock) |-> <<>>]
    /\ nCalls = 0
    /\ market = [requests |-> <<>>, offers |-> <<>>]
    /\ nMarketChanges = 0
    /\ finalize_lag_slots = 0
    /\ wpc = [w \in Workers |-> "fetch"]
    /\ wslot = [w \in Workers |-> 0]
    /\ wproposal = [w \in Workers |-> [total_score |-> 0, matches |-> <<>>]]
    /\ last_finalized_slot_local = [w \in Workers |-> 0]
    /\ solverInput = NoSolverInput
    /\ solution = NoSolution
    /\ contract \in {new(init_value) : init_value \in BOOLEAN}
    /\ validation = NoValidation
    /\ ink_env = NoInkEnv
    /\ transfers = <<>>
    /\ inkCall = NoInkCall
    /\ nInkCalls = 0

NextContract ==
    \/ Flip
    \/ \E winner_total_score \in U128Values, assignments \in AssignmentVecs :
           ValidateWinner(winner_total_score, assignments)

SpecContract == InitContract /\ [][NextContract]_vars

----------------------------------------------------------------------------
(* contracts/escrow: escrow messages sent to the contract *)

AssignmentIds == {1, 2}
\* value transferred with open_and_deposit
Deposits == {5}
\* timeouts given to open_and_deposit: none, one ms, and one that saturates the deadline
TimeoutValues == {U64(0, 0), U64(0, 1), U64Max}

\* the environment of a call made now
CallEnv(caller, transferred_value, transfer_allowed) ==
    InkEnv(caller, transferred_value, ink_env.block_timestamp,
           ink_env.balance + transferred_value, transfer_allowed)

\* amount that left the contract in a call
PaidOut(r) == IF r.paid = <<>> THEN 0 ELSE r.paid[1].amount

\* a message was executed: a panic leaves storage and balance as they were
InkApply(name, caller, assignment_id, transferred_value, r) ==
    /\ nInkCalls < MaxInkCalls
    /\ contract' = r.storage
    /\ transfers' = transfers \o r.paid
    /\ ink_env' = [ink_env EXCEPT !.balance =
                      IF r.result = "ok" THEN @ + transferred_value - PaidOut(r) ELSE @]
    /\ inkCall' = [name |-> name, caller |-> caller, assignment_id |-> assignment_id,
                   result |-> r.result]
    /\ nInkCalls' = nInkCalls + 1
    /\ UNCHANGED <<pobaVars, escrowVars, block_number, events, lastCall, submitted, nCalls,
                   workerVars, solverVars, validation>>

OpenAndDeposit(caller, transferred_value, assignment_id, driver, timeout_ms) ==
    InkApply("open_and_deposit", caller, assignment_id, transferred_value,
             open_and_deposit(contract, CallEnv(caller, transferred_value, TRUE),
                              assignment_id, driver, timeout_ms))

DriverMarkDelivered(caller, assignment_id) ==
    InkApply("driver_mark_delivered", caller, assignment_id, 0,
             driver_mark_delivered(contract, CallEnv(caller, 0, TRUE), assignment_id))

ReceiverConfirm(caller, assignment_id, transfer_allowed) ==
    InkApply("receiver_confirm", caller, assignment_id, 0,
             receiver_confirm(contract, CallEnv(caller, 0, transfer_allowed),
                              assignment_id))

AutoReleaseIfTimeout(caller, assignment_id, transfer_allowed) ==
    InkApply("auto_release_if_timeout", caller, assignment_id, 0,
             auto_release_if_timeout(contract, CallEnv(caller, 0, transfer_allowed),
                                     assignment_id))

CancelBeforeDelivered(caller, assignment_id, transfer_allowed) ==
    InkApply("cancel_before_delivered", caller, assignment_id, 0,
             cancel_before_delivered(contract, CallEnv(caller, 0, transfer_allowed),
                                     assignment_id))

\* the chain produces a block: its timestamp grows (and stays below u64::MAX)
InkNextBlock ==
    /\ ink_env.block_timestamp.off < MaxTimestamp
    /\ ink_env' = [ink_env EXCEPT !.block_timestamp = U64(0, @.off + 1)]
    /\ UNCHANGED <<pobaVars, escrowVars, block_number, events, lastCall, submitted, nCalls,
                   workerVars, solverVars, contract, validation, transfers, inkCall,
                   nInkCalls>>

\* the contract was instantiated by default(), at the first block of its chain
InitInkEscrow ==
    /\ BestProposal = <<>>
    /\ FinalizedProposal = <<>>
    /\ LastFinalizedSlot = 0
    /\ NextEscrowId = 0
    /\ Escrows = <<>>
    /\ RequestToEscrow = <<>>
    /\ block_number = 0
    /\ events = <<>>
    /\ lastCall = [name |-> "none", result |-> Ok]
    /\ submitted = [s \in Slots \cup (0..MaxBlock) |-> <<>>]
    /\ nCalls = 0
    /\ market = [requests |-> <<>>, offers |-> <<>>]
    /\ nMarketChanges = 0
    /\ finalize_lag_slots = 0
    /\ wpc = [w \in Workers |-> "fetch"]
    /\ wslot = [w \in Workers |-> 0]
    /\ wproposal = [w \in Workers |-> [total_score |-> 0, matches |-> <<>>]]
    /\ last_finalized_slot_local = [w \in Workers |-> 0]
    /\ solverInput = NoSolverInput
    /\ solution = NoSolution
    /\ contract = new(FALSE)
    /\ validation = NoValidation
    /\ ink_env = NoInkEnv
    /\ transfers = <<>>
    /\ inkCall = NoInkCall
    /\ nInkCalls = 0

NextInkEscrow ==
    \/ \E caller \in Accounts, transferred_value \in Deposits,
          assignment_id \in AssignmentIds, driver \in Accounts,
          timeout_ms \in TimeoutValues :
           OpenAndDeposit(caller, transferred_value, assignment_id, driver, timeout_ms)
    \/ \E caller \in Accounts, assignment_id \in AssignmentIds :
           DriverMarkDelivered(caller, assignment_id)
    \/ \E caller \in Accounts, assignment_id \in AssignmentIds,
          transfer_allowed \in BOOLEAN :
           ReceiverConfirm(caller, assignment_id, transfer_allowed)
    \/ \E caller \in Accounts, assignment_id \in AssignmentIds,
          transfer_allowed \in BOOLEAN :
           AutoReleaseIfTimeout(caller, assignment_id, transfer_allowed)
    \/ \E caller \in Accounts, assignment_id \in AssignmentIds,
          transfer_allowed \in BOOLEAN :
           CancelBeforeDelivered(caller, assignment_id, transfer_allowed)
    \/ InkNextBlock

SpecInkEscrow == InitInkEscrow /\ [][NextInkEscrow]_vars

----------------------------------------------------------------------------
(* node/poba_worker: compute_matches_for_market run on its own *)

\* one call of compute_matches_for_market on the input: it returns, or the node built
\* with overflow checks panics in the shift
SolveMarket ==
    /\ solution.state = "idle"
    /\ LET requests == solverInput.market.requests
           offers == solverInput.market.offers
           out == compute_matches_for_market(solverInput.env, 0, requests, offers)
       IN  solution' =
               IF solverInput.overflow_checks /\ shift_overflows(requests, offers)
               THEN [state |-> "panicked", total_score |-> 0, matches |-> <<>>]
               ELSE [state |-> "returned", total_score |-> out.total_score,
                     matches |-> out.matches]
    /\ UNCHANGED <<pobaVars, escrowVars, block_number, events, lastCall, submitted, nCalls,
                   workerVars, solverInput, contractVars>>

InitSolver ==
    /\ BestProposal = <<>>
    /\ FinalizedProposal = <<>>
    /\ LastFinalizedSlot = 0
    /\ NextEscrowId = 0
    /\ Escrows = <<>>
    /\ RequestToEscrow = <<>>
    /\ block_number = 0
    /\ events = <<>>
    /\ lastCall = [name |-> "none", result |-> Ok]
    /\ submitted = [s \in Slots \cup (0..MaxBlock) |-> <<>>]
    /\ nCalls = 0
    /\ market = [requests |-> <<>>, offers |-> <<>>]
    /\ nMarketChanges = 0
    /\ finalize_lag_slots = 0
    /\ wpc = [w \in Workers |-> "fetch"]
    /\ wslot = [w \in Workers |-> 0]
    /\ wproposal = [w \in Workers |-> [total_score |-> 0, matches |-> <<>>]]
    /\ last_finalized_slot_local = [w \in Workers |-> 0]
    /\ solverInput \in [env : SolverEnvs, market : SolverMarkets, overflow_checks : BOOLEAN]
    /\ solution = NoSolution
    /\ contract = new(FALSE)
    /\ validation = NoValidation
    /\ ink_env = NoInkEnv
    /\ transfers = <<>>
    /\ inkCall = NoInkCall
    /\ nInkCalls = 0

NextSolver == SolveMarket

SpecSolver == InitSolver /\ [][NextSolver]_vars

----------------------------------------------------------------------------
(* node/poba_worker: compute_matches_for_market run on one pair, for its time filter *)

\* window bounds tried, in ms: missing (0) and three instants
WindowBounds == {0, 1000, 2000, 3000}

\* one package request and one offer that pass the type and the price filter, with
\* every choice of the four bounds (a window may end before it starts)
WindowMarkets ==
    {[requests |-> <<MarketRequest("R1", 0, 0, 0, 0, 1000, 0, r_start, r_end)>>,
      offers |-> <<MarketOffer("O1", 500, 0, 0, 0, 0, o_start, o_end, 1)>>] :
        r_start \in WindowBounds, r_end \in WindowBounds,
        o_start \in WindowBounds, o_end \in WindowBounds}

\* the time parameters tried: the requirement on and off, a minimal overlap below, at and
\* above zero, each slack absent or one second
WindowEnvs ==
    {[DefaultEnv EXCEPT !.require_time_overlap = require, !.min_overlap_ms = min_overlap,
                        !.early_slack_ms = early, !.late_slack_ms = late] :
        require \in BOOLEAN, min_overlap \in {0 - 1000, 0, 1000},
        early \in {0, 1000}, late \in {0, 1000}}

InitWindows ==
    /\ BestProposal = <<>>
    /\ FinalizedProposal = <<>>
    /\ LastFinalizedSlot = 0
    /\ NextEscrowId = 0
    /\ Escrows = <<>>
    /\ RequestToEscrow = <<>>
    /\ block_number = 0
    /\ events = <<>>
    /\ lastCall = [name |-> "none", result |-> Ok]
    /\ submitted = [s \in Slots \cup (0..MaxBlock) |-> <<>>]
    /\ nCalls = 0
    /\ market = [requests |-> <<>>, offers |-> <<>>]
    /\ nMarketChanges = 0
    /\ finalize_lag_slots = 0
    /\ wpc = [w \in Workers |-> "fetch"]
    /\ wslot = [w \in Workers |-> 0]
    /\ wproposal = [w \in Workers |-> [total_score |-> 0, matches |-> <<>>]]
    /\ last_finalized_slot_local = [w \in Workers |-> 0]
    /\ solverInput \in [env : WindowEnvs, market : WindowMarkets, overflow_checks : BOOLEAN]
    /\ solution = NoSolution
    /\ contract = new(FALSE)
    /\ validation = NoValidation
    /\ ink_env = NoInkEnv
    /\ transfers = <<>>
    /\ inkCall = NoInkCall
    /\ nInkCalls = 0

SpecWindows == InitWindows /\ [][NextSolver]_vars

----------------------------------------------------------------------------
(* node/poba_worker: compute_matches_for_market run on one pair, for its price rule *)

\* prices tried, in cents: none, the smallest ones, and three around a cap of 1000
PriceValues == {0, 1, 2, 3, 4, 999, 1000, 1001}

\* one request (package or passenger) and one offer for both types, windows that
\* overlap, with every choice of the two prices
PriceMarkets ==
    {[requests |-> <<MarketRequest("R1", 0, 0, 0, 0, max_price_cents, kind, 1000, 10000)>>,
      offers |-> <<MarketOffer("O1", min_price_cents, 0, 0, 0, 0, 1000, 10000, 3)>>] :
        max_price_cents \in PriceValues, min_price_cents \in PriceValues, kind \in {0, 1}}

InitPrices ==
    /\ BestProposal = <<>>
    /\ FinalizedProposal = <<>>
    /\ LastFinalizedSlot = 0
    /\ NextEscrowId = 0
    /\ Escrows = <<>>
    /\ RequestToEscrow = <<>>
    /\ block_number = 0
    /\ events = <<>>
    /\ lastCall = [name |-> "none", result |-> Ok]
    /\ submitted = [s \in Slots \cup (0..MaxBlock) |-> <<>>]
    /\ nCalls = 0
    /\ market = [requests |-> <<>>, offers |-> <<>>]
    /\ nMarketChanges = 0
    /\ finalize_lag_slots = 0
    /\ wpc = [w \in Workers |-> "fetch"]
    /\ wslot = [w \in Workers |-> 0]
    /\ wproposal = [w \in Workers |-> [total_score |-> 0, matches |-> <<>>]]
    /\ last_finalized_slot_local = [w \in Workers |-> 0]
    /\ solverInput \in [env : {DefaultEnv}, market : PriceMarkets, overflow_checks : BOOLEAN]
    /\ solution = NoSolution
    /\ contract = new(FALSE)
    /\ validation = NoValidation
    /\ ink_env = NoInkEnv
    /\ transfers = <<>>
    /\ inkCall = NoInkCall
    /\ nInkCalls = 0

SpecPrices == InitPrices /\ [][NextSolver]_vars

----------------------------------------------------------------------------
(* node/poba_worker: compute_matches_for_market run with POBA_SKIP_COST varied *)

\* skip costs tried: the default, and one as large as the solver's inf (inf is fixed in
\* the code, POBA_SKIP_COST is read from the environment)
SkipCostEnvs == {DefaultEnv, [DefaultEnv EXCEPT !.skip_cost = inf]}

\* the lists of at most MaxRequests requests and MaxOffers offers
SmallMarkets == {[requests |-> rs, offers |-> os] : rs \in RequestLists, os \in OfferLists}

InitSkipCosts ==
    /\ BestProposal = <<>>
    /\ FinalizedProposal = <<>>
    /\ LastFinalizedSlot = 0
    /\ NextEscrowId = 0
    /\ Escrows = <<>>
    /\ RequestToEscrow = <<>>
    /\ block_number = 0
    /\ events = <<>>
    /\ lastCall = [name |-> "none", result |-> Ok]
    /\ submitted = [s \in Slots \cup (0..MaxBlock) |-> <<>>]
    /\ nCalls = 0
    /\ market = [requests |-> <<>>, offers |-> <<>>]
    /\ nMarketChanges = 0
    /\ finalize_lag_slots = 0
    /\ wpc = [w \in Workers |-> "fetch"]
    /\ wslot = [w \in Workers |-> 0]
    /\ wproposal = [w \in Workers |-> [total_score |-> 0, matches |-> <<>>]]
    /\ last_finalized_slot_local = [w \in Workers |-> 0]
    /\ solverInput \in [env : SkipCostEnvs, market : SmallMarkets, overflow_checks : BOOLEAN]
    /\ solution = NoSolution
    /\ contract = new(FALSE)
    /\ validation = NoValidation
    /\ ink_env = NoInkEnv
    /\ transfers = <<>>
    /\ inkCall = NoInkCall
    /\ nInkCalls = 0

SpecSkipCosts == InitSkipCosts /\ [][NextSolver]_vars

----------------------------------------------------------------------------
(* Properties *)

Range(f) == {f[i] : i \in DOMAIN f}
Max(S) == CHOOSE x \in S : \A y \in S : y <= x

RECURSIVE SumPartial(_)
SumPartial(ms) == IF ms = <<>> THEN 0 ELSE ms[1].partial_score + SumPartial(Tail(ms))

NonTerminal == {"Created", "PickedUpByCourier", "DeliveredByCourier"}

\* C1: over the submit_proposal calls of a slot that has not been finalized, the stored
\* best total_score is the maximum of the accepted total_scores, and a stored best
\* total_score never decreases from one step to the next.
C1_BestIsMaxAccepted ==
    /\ [](\A slot \in Slots :
            (slot \notin DOMAIN FinalizedProposal /\ submitted[slot] # <<>>)
                => /\ slot \in DOMAIN BestProposal
                   /\ BestProposal[slot].total_score = Max(Range(submitted[slot])))
    /\ [][\A slot \in Slots :
            (slot \in DOMAIN BestProposal /\ slot \in DOMAIN BestProposal')
                => BestProposal'[slot].total_score >= BestProposal[slot].total_score]_vars

\* three accepted submissions 2, 1, 3 for one slot, the best being 3
C1_Witness ==
    \E slot \in Slots :
        /\ slot \notin DOMAIN FinalizedProposal
        /\ submitted[slot] = <<2, 1, 3>>
        /\ BestProposal[slot].total_score = 3

\* C2: a finalize_slot on a slot that already has a finalized proposal fails.
C2_FinalizeOneShot ==
    [][\A who \in Accounts, slot \in Slots :
        (FinalizeSlot(who, slot) /\ slot \in DOMAIN FinalizedProposal)
            => lastCall'.result # Ok]_vars

\* C3: a stored FinalizedProposal[slot] is never changed nor removed.
C3_FinalizedImmutable ==
    [][\A slot \in DOMAIN FinalizedProposal :
        /\ slot \in DOMAIN FinalizedProposal'
        /\ FinalizedProposal'[slot] = FinalizedProposal[slot]]_vars

NoRepeatedRequest(p) ==
    \A i, j \in 1..Len(p.matches) :
        i # j => p.matches[i].request_uuid # p.matches[j].request_uuid

NoRepeatedOffer(p) ==
    \A i, j \in 1..Len(p.matches) :
        i # j => p.matches[i].offer_uuid # p.matches[j].offer_uuid

ScoreIsSum(p) == p.total_score = SumPartial(p.matches)

\* C4: every stored FinalizedProposal has no repeated request_uuid, no repeated
\* offer_uuid, and a total_score equal to the sum of its partial_scores.
C4_FinalizedIsValidWinner ==
    \A slot \in DOMAIN FinalizedProposal :
        /\ NoRepeatedRequest(FinalizedProposal[slot])
        /\ NoRepeatedOffer(FinalizedProposal[slot])
        /\ ScoreIsSum(FinalizedProposal[slot])

\* C5: with the finalizer and the proposer workers interleaving their submit_proposal
\* and finalize_slot requests in any order (finalizer lag 0 or 1), the proposal recorded
\* in FinalizedProposal[slot] has the highest total_score of the proposals submitted
\* for that slot
C5_FinalizedIsHighestSubmitted ==
    \A slot \in DOMAIN FinalizedProposal :
        FinalizedProposal[slot].total_score = Max(Range(submitted[slot]))

\* C6: for each request_uuid at most one escrow record with a non-terminal status.
C6_EscrowLinearity ==
    \A req \in RequestUuids :
        Cardinality({id \in DOMAIN Escrows :
                        /\ Escrows[id].request_uuid = req
                        /\ Escrows[id].status \in NonTerminal}) <= 1

\* a second create_escrow for a request with a live escrow was refused
C6_Witness ==
    /\ lastCall = [name |-> "create_escrow", result |-> "RequestAlreadyAssigned"]
    /\ \E id \in DOMAIN Escrows : Escrows[id].status \in NonTerminal
    /\ Cardinality(DOMAIN Escrows) = 1

\* the transition table: may `who` make `call` on escrow record e at block `now`
TableAllows(call, who, e, offer_uuid, now) ==
    CASE call = "mark_picked_up" -> e.status = "Created" /\ who = e.driver
      [] call = "mark_delivered" -> e.status = "PickedUpByCourier" /\ who = e.driver
      [] call = "confirm_received" -> e.status = "DeliveredByCourier" /\ who = e.payer
      [] call = "release_escrow" -> e.status \in NonTerminal /\ offer_uuid = e.offer_uuid
      [] call = "force_timeout_release" -> e.status \in NonTerminal /\ now >= e.deadline

TableTarget(call) ==
    CASE call = "mark_picked_up" -> "PickedUpByCourier"
      [] call = "mark_delivered" -> "DeliveredByCourier"
      [] call = "confirm_received" -> "ConfirmedByReceiver"
      [] call = "release_escrow" -> "ConfirmedByReceiver"
      [] call = "force_timeout_release" -> "TimeoutReleased"

\* what the table says of the outcome r of `call` dispatched on escrow_id in this state
FollowsTable(call, r, who, escrow_id, offer_uuid) ==
    IF escrow_id \in DOMAIN Escrows
       /\ TableAllows(call, who, Escrows[escrow_id], offer_uuid, block_number)
    THEN /\ r.result = Ok
         /\ r.Escrows = [Escrows EXCEPT ![escrow_id].status = TableTarget(call)]
    ELSE /\ r.result # Ok
         /\ r.Escrows = Escrows

EscrowTransitions ==
    {"mark_picked_up", "mark_delivered", "confirm_received", "release_escrow",
     "force_timeout_release"}

\* C7: in every reachable state every call on an escrow succeeds exactly in the cases of
\* the transition table and then makes the tabled status change (all other calls fail and
\* change no escrow); and no step changes a status except a successful one of these calls.
C7_TransitionsFollowTable ==
    /\ [](\A who \in Accounts :
            /\ \A id \in EscrowIds :
                /\ FollowsTable("mark_picked_up", mark_picked_up(who, id), who, id, "none")
                /\ FollowsTable("mark_delivered", mark_delivered(who, id), who, id, "none")
                /\ FollowsTable("confirm_received", confirm_received(who, id),
                                who, id, "none")
                /\ FollowsTable("force_timeout_release", force_timeout_release(who, id),
                                who, id, "none")
            /\ \A req \in RequestUuids, off \in OfferUuids :
                LET r == release_escrow(who, req, off)
                IN  IF req \in DOMAIN RequestToEscrow
                    THEN FollowsTable("release_escrow", r, who, RequestToEscrow[req], off)
                    ELSE r.result # Ok /\ r.Escrows = Escrows)
    /\ [][\A id \in DOMAIN Escrows :
            /\ id \in DOMAIN Escrows'
            /\ Escrows'[id].status # Escrows[id].status
                => /\ lastCall'.result = Ok
                   /\ lastCall'.name \in EscrowTransitions
                   /\ nCalls' = nCalls + 1]_vars

\* the receiver has just confirmed a delivered escrow (after pickup and delivery)
C7_Witness ==
    /\ lastCall = [name |-> "confirm_received", result |-> Ok]
    /\ \E id \in DOMAIN Escrows : Escrows[id].status = "ConfirmedByReceiver"

\* C8: in every reachable state force_timeout_release on an existing escrow succeeds
\* exactly when the block number has reached the deadline and the status is non-terminal,
\* for any caller; it then sets TimeoutReleased and emits PaymentReleased(amount); else it
\* fails with EscrowAlreadyFinal (terminal) or TimeoutNotReached (too early).
C8_TimeoutSafety ==
    \A who \in Accounts, id \in DOMAIN Escrows :
        LET r == force_timeout_release(who, id)
        IN  IF Escrows[id].status \in NonTerminal /\ block_number >= Escrows[id].deadline
            THEN /\ r.result = Ok
                 /\ r.Escrows = [Escrows EXCEPT ![id].status = "TimeoutReleased"]
                 /\ r.events = <<[event |-> "PaymentReleased", escrow_id |-> id,
                                  amount |-> Escrows[id].amount]>>
            ELSE /\ r.Escrows = Escrows
                 /\ r.events = <<>>
                 /\ r.result = IF Escrows[id].status \in NonTerminal
                                THEN "TimeoutNotReached"
                                ELSE "EscrowAlreadyFinal"

\* an escrow still in Created was released at its deadline block
C8_Witness ==
    /\ lastCall = [name |-> "force_timeout_release", result |-> Ok]
    /\ \E id \in DOMAIN Escrows :
        /\ Escrows[id].status = "TimeoutReleased"
        /\ block_number = Escrows[id].deadline
        /\ events = <<[event |-> "PaymentReleased", escrow_id |-> id,
                       amount |-> Escrows[id].amount]>>

LedgerErrors ==
    {"EmptyMatches", "TooManyMatches", "NoProposalForSlot", "RequestAlreadyAssigned",
     "ZeroAmountNotAllowed", "EscrowNotFound", "EscrowAlreadyFinal", "NotDriver",
     "NotPayer", "InvalidStatusTransition", "TimeoutNotReached"}

\* C9: a call that returns an error returns one of the listed errors, leaves the storage
\* of both pallets unchanged and deposits no event.
C9_ErrorsChangeNothing ==
    [][(nCalls' = nCalls + 1 /\ lastCall'.result # Ok)
        => /\ lastCall'.result \in LedgerErrors
           /\ UNCHANGED <<pobaVars, escrowVars>>
           /\ events' = <<>>]_vars

\* a call on an escrow that had reached a final status has just failed
C9_Witness ==
    /\ lastCall.result = "EscrowAlreadyFinal"
    /\ events = <<>>
    /\ \E id \in DOMAIN Escrows : Escrows[id].status = "ConfirmedByReceiver"

\* C10: in every reachable state a submit_proposal (1..256 matches) whose total_score does
\* not exceed the installed best of its slot succeeds, leaves the pallet's storage
\* unchanged, and deposits exactly one ProposalSubmitted(slot, total_score, len, proposer).
C10_InferiorIsNoOp ==
    \A slot \in DOMAIN BestProposal, who \in Accounts :
        \A total_score \in {s \in Scores : s <= BestProposal[slot].total_score},
           matches \in {m \in MatchVecs : Len(m) \in 1..MAX_MATCHES_PER_PROPOSAL} :
            LET r == submit_proposal(who, slot, total_score, matches)
            IN  /\ r.result = Ok
                /\ r.BestProposal = BestProposal
                /\ r.FinalizedProposal = FinalizedProposal
                /\ r.LastFinalizedSlot = LastFinalizedSlot
                /\ r.events = <<[event |-> "ProposalSubmitted", slot |-> slot,
                                 total_score |-> total_score,
                                 matches |-> Len(matches), proposer |-> who]>>

\* a second submission with the installed score but two matches left the installed
\* one-match proposal in place
C10_Witness ==
    \E slot \in Slots :
        /\ submitted[slot] = <<2, 2>>
        /\ lastCall = [name |-> "submit_proposal", result |-> Ok]
        /\ Len(events) = 1 /\ events[1].slot = slot /\ events[1].matches = 2
        /\ slot \in DOMAIN BestProposal
        /\ Len(BestProposal[slot].matches) = 1

\* C11: in every reachable state a finalize_slot(slot) that succeeds moves the best
\* proposal: FinalizedProposal[slot] becomes the value BestProposal[slot] had, BestProposal
\* loses slot, LastFinalizedSlot = slot, the entries of every other slot stay as they
\* were in both maps, and exactly one SlotFinalized(slot, total_score, len) is deposited
C11_FinalizeMovesBest ==
    \A who \in Accounts, slot \in Slots :
        LET r == finalize_slot(who, slot)
        IN  r.result = Ok =>
              /\ slot \in DOMAIN BestProposal
              /\ slot \in DOMAIN r.FinalizedProposal
              /\ r.FinalizedProposal[slot] = BestProposal[slot]
              /\ DOMAIN r.BestProposal = (DOMAIN BestProposal) \ {slot}
              /\ \A other \in DOMAIN r.BestProposal : r.BestProposal[other] = BestProposal[other]
              /\ DOMAIN r.FinalizedProposal = (DOMAIN FinalizedProposal) \cup {slot}
              /\ \A other \in (DOMAIN FinalizedProposal) \ {slot} :
                     r.FinalizedProposal[other] = FinalizedProposal[other]
              /\ r.LastFinalizedSlot = slot
              /\ r.events = <<[event |-> "SlotFinalized", slot |-> slot,
                               total_score |-> BestProposal[slot].total_score,
                               matches |-> Len(BestProposal[slot].matches)]>>

\* a finalize_slot has just succeeded on one slot while the other slot keeps its best
\* proposal
C11_Witness ==
    /\ lastCall = [name |-> "finalize_slot", result |-> Ok]
    /\ \E slot \in Slots, other \in Slots :
          /\ other # slot
          /\ LastFinalizedSlot = slot
          /\ slot \in DOMAIN FinalizedProposal
          /\ slot \notin DOMAIN BestProposal
          /\ other \in DOMAIN BestProposal
          /\ Len(events) = 1 /\ events[1].event = "SlotFinalized" /\ events[1].slot = slot

----------------------------------------------------------------------------
(* Properties of the solver *)

\* the cost table of the input the solver was run on
InputTable ==
    PairTable(solverInput.env, solverInput.market.requests, solverInput.market.offers)

\* the assignment a returned match list stands for: per request of the input, the index
\* of the offer it is matched with, or None
ReturnedAssign ==
    LET requests == solverInput.market.requests
        offers == solverInput.market.offers
        ms == solution.matches
    IN  [i \in 1..Len(requests) |->
            IF \E k \in 1..Len(ms) : ms[k].request_uuid = requests[i].uuid_16
            THEN CHOOSE j \in 1..Len(offers) :
                     \E k \in 1..Len(ms) : /\ ms[k].request_uuid = requests[i].uuid_16
                                           /\ ms[k].offer_uuid = offers[j].uuid_16
            ELSE None]

\* total cost of an assignment: the penalty of each matched pair, skip_cost per skip
RECURSIVE CostFrom(_, _)
CostFrom(i, a) ==
    IF i > Len(a) THEN 0
    ELSE (IF a[i] = None THEN solverInput.env.skip_cost ELSE InputTable[i][a[i]].cost)
         + CostFrom(i + 1, a)
AssignCost(a) == CostFrom(1, a)

\* the assignments that use only feasible pairs and give each offer to at most one request
ValidAssigns ==
    LET n == Len(solverInput.market.requests)
        m == Len(solverInput.market.offers)
    IN  {a \in [1..n -> 0..m] :
            /\ \A i \in 1..n : a[i] # None => InputTable[i][a[i]].filtered_by = "none"
            /\ \A i1, i2 \in 1..n : (i1 # i2 /\ a[i1] # None) => a[i1] # a[i2]}

\* C12: the assignment compute_matches_for_market returns costs no more than any other
\* assignment that uses only feasible pairs and gives each offer to at most one request
C12_SolverOptimal ==
    solution.state = "returned" =>
        \A a \in ValidAssigns : AssignCost(ReturnedAssign) <= AssignCost(a)

\* C13: in a returned match list no request_uuid appears in two matches and no offer_uuid
\* appears in two matches
C13_MatchesUnique ==
    solution.state = "returned" =>
        \A k1, k2 \in 1..Len(solution.matches) :
            k1 # k2 => /\ solution.matches[k1].request_uuid # solution.matches[k2].request_uuid
                       /\ solution.matches[k1].offer_uuid # solution.matches[k2].offer_uuid

\* two requests that prefer the same offer were both matched
C13_Witness ==
    /\ solution.state = "returned"
    /\ Len(solution.matches) = 2
    /\ InputTable[1][ReturnedAssign[2]].filtered_by = "none"
    /\ InputTable[1][ReturnedAssign[2]].cost < InputTable[1][ReturnedAssign[1]].cost

\* C14: the total_score returned is the sum of partial_score over the returned matches,
\* and no returned partial_score is negative
C14_ScoreConsistent ==
    solution.state = "returned" =>
        /\ solution.total_score = SumPartial(solution.matches)
        /\ \A k \in 1..Len(solution.matches) : solution.matches[k].partial_score >= 0

\* two matches were returned, one of them with a penalty above base_score
C14_Witness ==
    /\ solution.state = "returned"
    /\ Len(solution.matches) = 2
    /\ solution.total_score > 0
    /\ \E k \in 1..2 : /\ solution.matches[k].partial_score = 0
                       /\ InputTable[k][ReturnedAssign[k]].cost > solverInput.env.base_score

\* the four filter predicates for a request r and an offer o under the parameters env
TypeFilter(r, o) == r.kind \in {0, 1} /\ MaskAnd(o.types_mask, kind_to_bit(r.kind)) # 0
PriceFilter(r, o) == r.max_price_cents = 0 \/ o.min_price_cents <= r.max_price_cents
TimeFilter(env, r, o) ==
    env.require_time_overlap =>
        /\ r.window_start # 0 /\ r.window_end # 0 /\ o.window_start # 0 /\ o.window_end # 0
        /\ MinOf(r.window_end, o.window_end + env.late_slack_ms)
               - MaxOf(r.window_start, o.window_start - env.early_slack_ms)
           >= MaxOf(0, env.min_overlap_ms)
DistanceFilter(env, r, o) ==
    LET known == /\ r.from_lat # 0 /\ r.from_lon # 0 /\ r.to_lat # 0 /\ r.to_lon # 0
                 /\ o.from_lat # 0 /\ o.from_lon # 0 /\ o.to_lat # 0 /\ o.to_lon # 0
        d_start == haversine_km(r.from_lat, r.from_lon, o.from_lat, o.from_lon)
        d_end == haversine_km(r.to_lat, r.to_lon, o.to_lat, o.to_lon)
    IN  (env.max_start_km > 0 \/ env.max_end_km > 0 \/ env.max_total_km > 0) =>
            /\ known
            /\ env.max_start_km > 0 => d_start <= env.max_start_km
            /\ env.max_end_km > 0 => d_end <= env.max_end_km
            /\ env.max_total_km > 0 => d_start + d_end <= env.max_total_km

\* the request and the offer of the input that a returned match names
MatchedRequest(k) ==
    CHOOSE r \in Range(solverInput.market.requests) :
        r.uuid_16 = solution.matches[k].request_uuid
MatchedOffer(k) ==
    CHOOSE o \in Range(solverInput.market.offers) : o.uuid_16 = solution.matches[k].offer_uuid

\* C15: every returned match passes the type, price, time-overlap and distance filters
\* under the parameters of the call; a request of a kind other than 0 or 1 passes no type
\* filter and is in no match
C15_FeasibilityClosure ==
    solution.state = "returned" =>
        \A k \in 1..Len(solution.matches) :
            /\ TypeFilter(MatchedRequest(k), MatchedOffer(k))
            /\ PriceFilter(MatchedRequest(k), MatchedOffer(k))
            /\ TimeFilter(solverInput.env, MatchedRequest(k), MatchedOffer(k))
            /\ DistanceFilter(solverInput.env, MatchedRequest(k), MatchedOffer(k))

\* the call returned for the single-pair market with this window start, default parameters
SingleMatchReturned(window_start) ==
    /\ solverInput.env = DefaultEnv
    /\ solverInput.market = SingleMatchMarket(window_start)
    /\ solution.state = "returned"

\* C16 as stated: with both windows [0, 10000] the call returns the one match
\* (R1, O1, 750, 999250) and total_score 999250
C16_SingleFeasibleMatch ==
    SingleMatchReturned(0) =>
        /\ solution.matches = <<MatchItem("R1", "O1", 750, 999250)>>
        /\ solution.total_score = 999250

\* C16: with both windows [1000, 10000] the call returns the one match
\* (R1, O1, 750, 999250) and total_score 999250; with both windows [0, 10000] the
\* window start is unspecified, the pair is dropped and the call returns no match
C16_SingleMatchNeedsWindow ==
    /\ SingleMatchReturned(1000) =>
           /\ solution.matches = <<MatchItem("R1", "O1", 750, 999250)>>
           /\ solution.total_score = 999250
    /\ SingleMatchReturned(0) =>
           /\ solution.matches = <<>>
           /\ solution.total_score = 0
           /\ InputTable[1][1].filtered_by = "time"

C16_Witness == SingleMatchReturned(1000) /\ Len(solution.matches) = 1

\* C17: a worker's last_finalized_slot_local moves to a slot only in a step in which
\* finalize_slot for that slot returned Ok; after a failed finalization it is unchanged
C17_LocalAdvancesOnSuccess ==
    [][\A w \in Workers :
          last_finalized_slot_local'[w] # last_finalized_slot_local[w] =>
              /\ lastCall' = [name |-> "finalize_slot", result |-> Ok]
              /\ nCalls' = nCalls + 1
              /\ last_finalized_slot_local'[w] \in DOMAIN FinalizedProposal']_vars

Terminal == {"ConfirmedByReceiver", "TimeoutReleased", "Cancelled", "Failed"}

\* the five transition calls on the escrow escrow_id by the caller who (release_escrow
\* names the escrow by its request_uuid and offer_uuid)
TransitionCallsOn(who, escrow_id) ==
    { mark_picked_up(who, escrow_id), mark_delivered(who, escrow_id),
      confirm_received(who, escrow_id),
      release_escrow(who, Escrows[escrow_id].request_uuid, Escrows[escrow_id].offer_uuid),
      force_timeout_release(who, escrow_id) }

\* on an escrow in a terminal status each of the five calls, by any caller, fails with
\* EscrowAlreadyFinal and leaves the record as it is
TerminalRefusesCalls ==
    /\ \A status \in Terminal : is_final_status(status)
    /\ \A escrow_id \in DOMAIN Escrows :
           Escrows[escrow_id].status \in Terminal =>
               \A who \in Accounts : \A r \in TransitionCallsOn(who, escrow_id) :
                   /\ r.result = "EscrowAlreadyFinal"
                   /\ r.Escrows = Escrows

\* no step changes the status of an escrow that is in a terminal status
TerminalStatusKept ==
    \A escrow_id \in DOMAIN Escrows :
        Escrows[escrow_id].status \in Terminal =>
            /\ escrow_id \in DOMAIN Escrows'
            /\ Escrows'[escrow_id].status = Escrows[escrow_id].status

\* C18: terminal statuses are absorbing: on an escrow in a terminal status every
\* mark_picked_up, mark_delivered, confirm_received, release_escrow and
\* force_timeout_release fails with EscrowAlreadyFinal whoever calls, and its status
\* never changes again
C18_TerminalAbsorbing == []TerminalRefusesCalls /\ [][TerminalStatusKept]_vars

\* a mark_delivered on a confirmed escrow, the only escrow there is, was just refused
C18_Witness ==
    /\ lastCall = [name |-> "mark_delivered", result |-> "EscrowAlreadyFinal"]
    /\ Cardinality(DOMAIN Escrows) = 1
    /\ \A escrow_id \in DOMAIN Escrows : Escrows[escrow_id].status = "ConfirmedByReceiver"

\* what create_escrow(req, off, driver, payer, amount) is to do in the current state
CreateEscrowAsStated(r, req, off, driver, payer, amount) ==
    IF req \in DOMAIN RequestToEscrow THEN r.result = "RequestAlreadyAssigned"
    ELSE IF amount = 0 THEN r.result = "ZeroAmountNotAllowed"
    ELSE
        /\ r.result = Ok
        /\ \E id \in DOMAIN r.Escrows \ DOMAIN Escrows :
              /\ DOMAIN r.Escrows = DOMAIN Escrows \cup {id}
              /\ \A other \in DOMAIN Escrows : r.Escrows[other] = Escrows[other]
              /\ r.Escrows[id] =
                     [request_uuid |-> req, offer_uuid |-> off, driver |-> driver,
                      payer |-> payer, amount |-> amount, status |-> "Created",
                      created_at |-> block_number,
                      deadline |-> block_number + ConfirmationTimeoutBlocks]
              /\ r.Escrows[id].deadline = r.Escrows[id].created_at + ConfirmationTimeoutBlocks
              /\ DOMAIN r.RequestToEscrow = DOMAIN RequestToEscrow \cup {req}
              /\ r.RequestToEscrow[req] = id
              /\ \A other \in DOMAIN RequestToEscrow :
                     r.RequestToEscrow[other] = RequestToEscrow[other]
              /\ \E k \in 1..Len(r.events) :
                     /\ r.events[k].event = "EscrowCreated"
                     /\ r.events[k].escrow_id = id

\* C19: create_escrow fails with RequestAlreadyAssigned when RequestToEscrow has the
\* request, else with ZeroAmountNotAllowed when the amount is 0; otherwise it stores a
\* Created record under a fresh id with created_at the current block and deadline
\* created_at + ConfirmationTimeoutBlocks, indexes the request and emits EscrowCreated
C19_CreateEscrow ==
    \A who \in Accounts, req \in RequestUuids, off \in OfferUuids, driver \in Accounts,
       payer \in Accounts, amount \in Amounts :
        CreateEscrowAsStated(create_escrow(who, req, off, driver, payer, amount),
                             req, off, driver, payer, amount)

\* a second escrow was just created, after the first block
C19_Witness ==
    /\ lastCall = [name |-> "create_escrow", result |-> Ok]
    /\ Cardinality(DOMAIN Escrows) = 2
    /\ block_number > 0
    /\ \E id \in DOMAIN Escrows : /\ Escrows[id].created_at = block_number
                                  /\ Escrows[id].status = "Created"
                                  /\ RequestToEscrow[Escrows[id].request_uuid] = id

----------------------------------------------------------------------------
(* Properties of the contract *)

\* the sum of the pair_score values, as a number
RECURSIVE SumPairScores(_)
SumPairScores(assignments) ==
    IF assignments = <<>> THEN U128(0, 0)
    ELSE Plus(assignments[1].pair_score, SumPairScores(Tail(assignments)))

RequestIdsDistinct(assignments) ==
    \A i, j \in 1..Len(assignments) :
        i # j => assignments[i].request_id # assignments[j].request_id

\* the answer of the latest call is true exactly when no request_id repeats and the
\* total given is the sum of the pair scores
ValidationAsStated ==
    validation.state = "returned" =>
        (validation.answer <=>
            /\ RequestIdsDistinct(validation.assignments)
            /\ validation.winner_total_score = SumPairScores(validation.assignments))

\* C20: validate_winner returns true if and only if every request_id appears at most once
\* and winner_total_score equals the sum of all pair_score values (a driver may repeat);
\* a call of it leaves the contract's storage as it was
C20_ValidateWinner ==
    []ValidationAsStated /\ [][validation' # validation => contract' = contract]_vars

----------------------------------------------------------------------------
(* Properties of the pallets, continued *)

\* a call that failed with error e left the pallet's storage alone and deposited nothing
PobaRefused(r, e) ==
    /\ r.result = e
    /\ r.BestProposal = BestProposal
    /\ r.FinalizedProposal = FinalizedProposal
    /\ r.LastFinalizedSlot = LastFinalizedSlot
    /\ r.events = <<>>

\* C21: submit_proposal with no match fails with EmptyMatches and with more than 256
\* matches with TooManyMatches, storing nothing and emitting nothing; every proposal held
\* in BestProposal or FinalizedProposal has between 1 and 256 matches
C21_MatchCountBounds ==
    /\ \A who \in Accounts, slot \in Slots, total_score \in Scores, matches \in MatchVecs :
           LET r == submit_proposal(who, slot, total_score, matches)
           IN  /\ Len(matches) = 0 => PobaRefused(r, "EmptyMatches")
               /\ Len(matches) > 256 => PobaRefused(r, "TooManyMatches")
    /\ \A slot \in DOMAIN BestProposal : Len(BestProposal[slot].matches) \in 1..256
    /\ \A slot \in DOMAIN FinalizedProposal : Len(FinalizedProposal[slot].matches) \in 1..256

\* a proposal was installed, another was finalized, and a submission of 257 matches was
\* just refused
C21_Witness ==
    /\ lastCall = [name |-> "submit_proposal", result |-> "TooManyMatches"]
    /\ DOMAIN BestProposal # {}
    /\ DOMAIN FinalizedProposal # {}

\* C22: create_escrow with amount > 0 succeeds whenever no escrow of the request is in a
\* non-terminal status, so a request whose earlier escrow is terminal gets a new escrow
C22_CreateAfterTerminal ==
    \A who \in Accounts, req \in RequestUuids, off \in OfferUuids, driver \in Accounts,
       payer \in Accounts, amount \in Amounts \ {0} :
        (~\E id \in DOMAIN Escrows : /\ Escrows[id].request_uuid = req
                                     /\ Escrows[id].status \in NonTerminal)
            => create_escrow(who, req, off, driver, payer, amount).result = Ok

\* what a courier step that moves `from` to `to` is to return on the escrow escrow_id
CourierStepAsStated(r, who, escrow_id, from, to) ==
    LET e == Escrows[escrow_id]
    IN  /\ r.result = Ok <=> (who = e.driver /\ e.status = from)
        /\ r.result = Ok => r.Escrows = [Escrows EXCEPT ![escrow_id].status = to]
        /\ r.result # Ok => r.Escrows = Escrows
        /\ (e.status \in NonTerminal /\ who # e.driver) => r.result = "NotDriver"
        /\ (e.status \in NonTerminal \ {from} /\ who = e.driver)
               => r.result = "InvalidStatusTransition"

CourierStepsAsStated ==
    \A who \in Accounts, escrow_id \in DOMAIN Escrows :
        /\ CourierStepAsStated(mark_picked_up(who, escrow_id), who, escrow_id,
                               "Created", "PickedUpByCourier")
        /\ CourierStepAsStated(mark_delivered(who, escrow_id), who, escrow_id,
                               "PickedUpByCourier", "DeliveredByCourier")

\* a step that puts an escrow in DeliveredByCourier finds it in PickedUpByCourier
DeliveredFollowsPickedUp ==
    \A escrow_id \in DOMAIN Escrows' :
        (/\ Escrows'[escrow_id].status = "DeliveredByCourier"
         /\ (escrow_id \notin DOMAIN Escrows
             \/ Escrows[escrow_id].status # "DeliveredByCourier"))
            => /\ escrow_id \in DOMAIN Escrows
               /\ Escrows[escrow_id].status = "PickedUpByCourier"
               /\ lastCall' = [name |-> "mark_delivered", result |-> Ok]

\* C23: mark_picked_up succeeds exactly for the recorded driver on a Created escrow and
\* mark_delivered exactly for the recorded driver on a PickedUpByCourier escrow; an escrow
\* gets to DeliveredByCourier only from PickedUpByCourier; on a non-terminal escrow another
\* caller gets NotDriver and the driver in the wrong status InvalidStatusTransition
C23_CourierSteps == []CourierStepsAsStated /\ [][DeliveredFollowsPickedUp]_vars

\* the driver, who is not the payer, has just delivered what they picked up
C23_Witness ==
    /\ lastCall = [name |-> "mark_delivered", result |-> Ok]
    /\ \E escrow_id \in DOMAIN Escrows :
          /\ Escrows[escrow_id].status = "DeliveredByCourier"
          /\ Escrows[escrow_id].driver # Escrows[escrow_id].payer

\* a call that failed with error e left the escrow pallet's storage alone, no event
EscrowRefused(r, e) ==
    /\ r.result = e
    /\ r.NextEscrowId = NextEscrowId
    /\ r.Escrows = Escrows
    /\ r.RequestToEscrow = RequestToEscrow
    /\ r.events = <<>>

\* a call that set escrow_id to ConfirmedByReceiver and emitted PaymentReleased with the
\* stored amount, then ReceiverConfirmed
ReleasedToReceiver(r, escrow_id) ==
    /\ r.result = Ok
    /\ r.Escrows = [Escrows EXCEPT ![escrow_id].status = "ConfirmedByReceiver"]
    /\ r.NextEscrowId = NextEscrowId
    /\ r.RequestToEscrow = RequestToEscrow
    /\ r.events = <<[event |-> "PaymentReleased", escrow_id |-> escrow_id,
                     amount |-> Escrows[escrow_id].amount],
                    [event |-> "ReceiverConfirmed", escrow_id |-> escrow_id]>>

\* C24: confirm_received succeeds exactly when the caller is the recorded payer and the
\* status is DeliveredByCourier, and then sets ConfirmedByReceiver and emits
\* PaymentReleased(stored amount) and ReceiverConfirmed; another caller gets NotPayer and
\* the payer in Created or PickedUpByCourier gets InvalidStatusTransition
C24_ConfirmReceived ==
    \A who \in Accounts, escrow_id \in DOMAIN Escrows :
        LET e == Escrows[escrow_id]
            r == confirm_received(who, escrow_id)
        IN  /\ r.result = Ok <=> (who = e.payer /\ e.status = "DeliveredByCourier")
            /\ r.result = Ok => ReleasedToReceiver(r, escrow_id)
            /\ (e.status \in NonTerminal /\ who # e.payer) => EscrowRefused(r, "NotPayer")
            /\ (e.status \in {"Created", "PickedUpByCourier"} /\ who = e.payer)
                   => EscrowRefused(r, "InvalidStatusTransition")

\* the payer, who is not the driver, has just confirmed a delivered escrow
C24_Witness ==
    /\ lastCall = [name |-> "confirm_received", result |-> Ok]
    /\ Len(events) = 2
    /\ \E escrow_id \in DOMAIN Escrows :
          /\ Escrows[escrow_id].status = "ConfirmedByReceiver"
          /\ Escrows[escrow_id].driver # Escrows[escrow_id].payer
          /\ events[1] = [event |-> "PaymentReleased", escrow_id |-> escrow_id,
                          amount |-> Escrows[escrow_id].amount]

\* C25: release_escrow(req, off), whoever calls, succeeds exactly when RequestToEscrow has
\* req, the stored offer_uuid is off and the status is non-terminal; it then sets
\* ConfirmedByReceiver and emits PaymentReleased(amount); an unknown req or another off
\* fails with EscrowNotFound and changes nothing
C25_ReleaseEscrow ==
    \A who \in Accounts, req \in RequestUuids, off \in OfferUuids :
        LET r == release_escrow(who, req, off)
            known == req \in DOMAIN RequestToEscrow
            escrow_id == RequestToEscrow[req]
        IN  /\ r.result = Ok <=> (/\ known
                                  /\ Escrows[escrow_id].offer_uuid = off
                                  /\ Escrows[escrow_id].status \in NonTerminal)
            /\ r.result = Ok => ReleasedToReceiver(r, escrow_id)
            /\ (~known \/ Escrows[escrow_id].offer_uuid # off)
                   => EscrowRefused(r, "EscrowNotFound")

\* an escrow still in Created (the only call before was its creation) was just released
\* by its request and offer
C25_Witness ==
    /\ lastCall = [name |-> "release_escrow", result |-> Ok]
    /\ \E escrow_id \in DOMAIN Escrows :
          /\ Escrows[escrow_id].status = "ConfirmedByReceiver"
          /\ events = <<[event |-> "PaymentReleased", escrow_id |-> escrow_id,
                         amount |-> Escrows[escrow_id].amount],
                        [event |-> "ReceiverConfirmed", escrow_id |-> escrow_id]>>
    /\ nCalls = 2

----------------------------------------------------------------------------
(* Properties of the worker *)

\* the step in which worker w gets to the finalize step of its iteration: the solver
\* returned no match, or the submit-proposal request was sent
ReachesFinalizeStep(w) ==
    \/ WorkerFetch(w) /\ wproposal'[w].matches = <<>>
    \/ \E dispatched \in BOOLEAN : WorkerSubmit(w, dispatched)

\* finalize_slot = slot - finalize_lag_slots, saturating at 0, of w's iteration
SlotToFinalize(w) ==
    IF wslot[w] >= finalize_lag_slots THEN wslot[w] - finalize_lag_slots ELSE 0

\* a worker at the finalize step posts finalize-slot next exactly when it is the finalizer
\* and the slot to finalize is above its last_finalized_slot_local
PostsFinalizeWhenDue ==
    \A w \in Workers :
        ReachesFinalizeStep(w) =>
            (wpc'[w] = "finalize" <=>
                (is_finalizer(w) /\ SlotToFinalize(w)' > last_finalized_slot_local'[w]))

\* a finalize_slot call reaches the ledger only from a finalizer about to post it
OnlyFinalizerPosts ==
    (lastCall'.name = "finalize_slot" /\ nCalls' = nCalls + 1) =>
        \E w \in Workers : is_finalizer(w) /\ wpc[w] = "finalize" /\ wpc'[w] = "fetch"

\* C26: a worker that reaches the finalize step of an iteration posts finalize-slot if and
\* only if its role is finalizer and slot - finalize_lag_slots (saturating at 0) is greater
\* than last_finalized_slot_local; a proposer never posts finalize-slot
C26_FinalizeStepCondition ==
    /\ [][PostsFinalizeWhenDue]_vars
    /\ [][OnlyFinalizerPosts]_vars
    /\ [](\A w \in Workers : wpc[w] = "finalize" => is_finalizer(w))

\* the finalizer, whose last_finalized_slot_local is 1, has just submitted a proposal in
\* an iteration whose slot to finalize is 1 again, and does not post finalize-slot
C26_Witness ==
    \E w \in Workers :
        /\ is_finalizer(w)
        /\ last_finalized_slot_local[w] = 1
        /\ SlotToFinalize(w) = 1
        /\ wpc[w] = "fetch"
        /\ wproposal[w].matches # <<>>
        /\ lastCall.name = "submit_proposal"

\* in the step where the solver returns no match the worker goes past the submit request,
\* and to the finalize request if it is the finalizer and the slot is due
EmptySkipsSubmit ==
    \A w \in Workers :
        (WorkerFetch(w) /\ wproposal'[w].matches = <<>>) =>
            /\ wpc'[w] # "submit"
            /\ (is_finalizer(w) /\ SlotToFinalize(w)' > last_finalized_slot_local[w])
                   => wpc'[w] = "finalize"

\* C27: when the solver returns no match the worker posts no submit-proposal in that
\* iteration and a finalizer still goes on to the finalization of slot - lag; no proposal
\* with zero matches is ever posted
C27_EmptyNotSubmitted ==
    /\ [][EmptySkipsSubmit]_vars
    /\ [](\A w \in Workers : wpc[w] = "submit" => wproposal[w].matches # <<>>)
    /\ [](lastCall.name = "submit_proposal" => lastCall.result # "EmptyMatches")

\* the solver returned no match for a market with a request and an offer, and the
\* finalizer is about to post finalize-slot
C27_Witness ==
    \E w \in Workers :
        /\ market.requests # <<>> /\ market.offers # <<>>
        /\ wproposal[w].matches = <<>>
        /\ wslot[w] = block_number
        /\ wslot[w] > 0
        /\ wpc[w] = "finalize"

----------------------------------------------------------------------------
(* Properties of the solver, continued *)

\* the offers that the returned assignment gives to no request
UnusedOffers ==
    {j \in 1..Len(solverInput.market.offers) :
        \A i \in 1..Len(solverInput.market.requests) : ReturnedAssign[i] # j}

\* request i could as well have been given the unused feasible offer j: at the cost of
\* its skip if it was skipped, or at the cost of its offer, which comes after j
TieLostBy(i, j) ==
    /\ InputTable[i][j].filtered_by = "none"
    /\ IF ReturnedAssign[i] = None
       THEN InputTable[i][j].cost = solverInput.env.skip_cost
       ELSE /\ j < ReturnedAssign[i]
            /\ InputTable[i][j].cost = InputTable[i][ReturnedAssign[i]].cost

\* C28: a request is not left skipped when an unused feasible offer costs exactly
\* skip_cost, and of the unused offers of equal cost a request gets the one of the smallest
\* index
C28_TiesPreferMatches ==
    solution.state = "returned" =>
        \A i \in 1..Len(solverInput.market.requests) : \A j \in UnusedOffers :
            ~TieLostBy(i, j)

\* the complete assignments the search can reach: feasible pairs only, and no two
\* requests on offers that share a bit of used_mask
SearchAssigns ==
    LET n == Len(solverInput.market.requests)
        m == Len(solverInput.market.offers)
    IN  {a \in [1..n -> 0..m] :
            /\ \A i \in 1..n : a[i] # None => InputTable[i][a[i]].filtered_by = "none"
            /\ \A i1, i2 \in 1..n :
                  (i1 # i2 /\ a[i1] # None /\ a[i2] # None)
                      => MaskBit(a[i1]) # MaskBit(a[i2])}

\* position of a choice in the loop of dfs over one request: the offers by index, then
\* the skip
ChoiceRank(j) == IF j = None THEN Len(solverInput.market.offers) + 1 ELSE j

\* the search reaches assignment a before assignment b: at the first request where they
\* differ, a makes the earlier choice
ExploredBefore(a, b) ==
    \E i \in DOMAIN a :
        /\ \A k \in 1..(i - 1) : a[k] = b[k]
        /\ ChoiceRank(a[i]) < ChoiceRank(b[i])

\* the complete assignments other than the returned one that cost the same
TiedAssigns ==
    {b \in SearchAssigns :
        b # ReturnedAssign /\ AssignCost(b) = AssignCost(ReturnedAssign)}

\* C29 as stated: of the complete assignments of identical best cost, the one the search
\* reaches last is returned
C29_LastExploredWins ==
    solution.state = "returned" =>
        \A b \in TiedAssigns : ExploredBefore(b, ReturnedAssign)

\* C29: of the complete assignments of identical best cost, the one the search reaches
\* first is returned: an assignment reached later replaces the recorded one only when it
\* costs strictly less
C29_FirstExploredWins ==
    solution.state = "returned" =>
        /\ ReturnedAssign \in SearchAssigns
        /\ \A b \in TiedAssigns : ExploredBefore(ReturnedAssign, b)

\* a returned assignment with a match, and another complete assignment of the same cost
C29_Witness ==
    /\ solution.state = "returned"
    /\ \E i \in DOMAIN ReturnedAssign : ReturnedAssign[i] # None
    /\ TiedAssigns # {}

\* min(r.end, o.end + late_slack) - max(r.start, o.start - early_slack)
SlackedOverlap(env, r, o) ==
    MinOf(r.window_end, o.window_end + env.late_slack_ms)
        - MaxOf(r.window_start, o.window_start - env.early_slack_ms)

\* the time predicate as stated
TimePredicateAsStated(env, r, o) ==
    IF env.require_time_overlap
    THEN /\ r.window_start # 0
         /\ r.window_end # 0
         /\ o.window_start # 0
         /\ o.window_end # 0
         /\ SlackedOverlap(env, r, o) >= MaxOf(0, env.min_overlap_ms)
    ELSE TRUE

\* C30: the time filter of compute_matches_for_market lets a pair through exactly when,
\* with require_time_overlap on, none of the four window bounds is zero and the overlap
\* of the request's window with the offer's window widened by the slacks is at least
\* max(0, min_overlap_ms); with require_time_overlap off it lets every pair through.  A
\* pair that passes the type and the price filter (no distance cap) is matched exactly then
C30_TimePredicate ==
    solution.state = "returned" =>
        \A i \in 1..Len(solverInput.market.requests) :
            \A j \in 1..Len(solverInput.market.offers) :
                LET r == solverInput.market.requests[i]
                    o == solverInput.market.offers[j]
                    passes == TimePredicateAsStated(solverInput.env, r, o)
                IN  /\ InputTable[i][j].filtered_by = "time" => ~passes
                    /\ (TypeFilter(r, o) /\ PriceFilter(r, o))
                           => (InputTable[i][j].filtered_by # "time" <=> passes)
                    /\ (Len(solverInput.market.requests) = 1
                          /\ Len(solverInput.market.offers) = 1
                          /\ TypeFilter(r, o) /\ PriceFilter(r, o)
                          /\ DistanceFilter(solverInput.env, r, o))
                           => (Len(solution.matches) = 1 <=> passes)

\* a pair whose windows only touch was matched with require_time_overlap on and no
\* positive minimal overlap
C30_Witness ==
    /\ solution.state = "returned"
    /\ Len(solverInput.market.requests) = 1
    /\ Len(solverInput.market.offers) = 1
    /\ solverInput.env.require_time_overlap
    /\ solverInput.env.min_overlap_ms = 0
    /\ SlackedOverlap(solverInput.env, solverInput.market.requests[1],
                      solverInput.market.offers[1]) = 0
    /\ Len(solution.matches) = 1

\* the price predicate as stated
PricePredicateAsStated(r, o) ==
    r.max_price_cents = 0 \/ o.min_price_cents <= r.max_price_cents

\* the agreed price as stated
AgreedPriceAsStated(r, o) ==
    IF r.max_price_cents > 0
    THEN MaxOf(1, (o.min_price_cents + r.max_price_cents) \div 2)
    ELSE MaxOf(1, o.min_price_cents)

\* match k of the returned list pairs request i with offer j of the input
MatchOf(k, i, j) ==
    /\ solution.matches[k].request_uuid = solverInput.market.requests[i].uuid_16
    /\ solution.matches[k].offer_uuid = solverInput.market.offers[j].uuid_16

\* C31: the price filter of compute_matches_for_market drops a pair exactly when the
\* request is capped (max_price_cents > 0) and the offer's min_price_cents is above the
\* cap; a feasible pair's agreed price is max(1, floor((min + max) / 2)) for a capped
\* request and max(1, min) for an uncapped one; every returned agreed_price_cents is that
\* price, is at least 1 and, for a capped request, lies between the offer's
\* min_price_cents and the request's max_price_cents
C31_PriceRule ==
    solution.state = "returned" =>
        \A i \in 1..Len(solverInput.market.requests) :
            \A j \in 1..Len(solverInput.market.offers) :
                LET r == solverInput.market.requests[i]
                    o == solverInput.market.offers[j]
                IN  /\ InputTable[i][j].filtered_by = "price" => ~PricePredicateAsStated(r, o)
                    /\ TypeFilter(r, o) =>
                           (InputTable[i][j].filtered_by # "price"
                                <=> PricePredicateAsStated(r, o))
                    /\ InputTable[i][j].filtered_by = "none" =>
                           InputTable[i][j].price_agreed = AgreedPriceAsStated(r, o)
                    /\ \A k \in 1..Len(solution.matches) :
                           MatchOf(k, i, j) =>
                               LET agreed == solution.matches[k].agreed_price_cents
                               IN  /\ agreed = AgreedPriceAsStated(r, o)
                                   /\ agreed >= 1
                                   /\ r.max_price_cents > 0 =>
                                          /\ o.min_price_cents <= agreed
                                          /\ agreed <= r.max_price_cents

\* a returned match whose midpoint price floor((0 + 1) / 2) = 0 was raised to 1
C31_Witness ==
    /\ solution.state = "returned"
    /\ Len(solution.matches) = 1
    /\ solverInput.market.requests[1].max_price_cents = 1
    /\ solverInput.market.offers[1].min_price_cents = 0
    /\ solution.matches[1].agreed_price_cents = 1

\* a feasible pair of the input that costs less than skipping its request
BeneficialPairs ==
    {p \in (1..Len(solverInput.market.requests)) \X (1..Len(solverInput.market.offers)) :
        /\ InputTable[p[1]][p[2]].filtered_by = "none"
        /\ InputTable[p[1]][p[2]].cost < solverInput.env.skip_cost}

\* C32: the output of compute_matches_for_market is empty only when no feasible pair
\* costs less than skip_cost: no accumulated cost of skips reaches inf and loses a
\* beneficial match
C32_InfExceedsCosts ==
    solution.state = "returned" =>
        (BeneficialPairs # {} => solution.matches # <<>>)

\* on the path to the returned assignment, the offers taken by the requests before i
TakenBefore(i) == {ReturnedAssign[k] : k \in 1..(i - 1)} \ {None}

\* the value of used_mask when dfs reaches request i on that path, as the set of its bits
MaskBefore(i) == {MaskBit(j) : j \in TakenBefore(i)}

\* C33: whatever the number of offers, the search runs to its end and, on the path to
\* the returned assignment, offer j is excluded for request i by used_mask exactly when
\* a request before i took offer j
C33_BitsetExact ==
    solution.state # "idle" =>
        /\ solution.state = "returned"
        /\ \A i \in 1..Len(solverInput.market.requests) :
              \A j \in 1..Len(solverInput.market.offers) :
                  MaskBit(j) \in MaskBefore(i) <=> j \in TakenBefore(i)

----------------------------------------------------------------------------
(* Properties of the ink! contract's escrow *)

\* the escrow of the assignment exists before the step and its status is another, or
\* gone, after it
InkStatusChanges(assignment_id) ==
    /\ assignment_id \in DOMAIN contract.statuses
    /\ \/ assignment_id \notin DOMAIN contract'.statuses
       \/ contract'.statuses[assignment_id] # contract.statuses[assignment_id]

\* delivered_at + timeout_ms of an assignment, as a number (not saturated)
StatedDeadline(c, assignment_id) ==
    U64(c.delivered_ats[assignment_id].max + c.timeouts_ms[assignment_id].max,
        c.delivered_ats[assignment_id].off + c.timeouts_ms[assignment_id].off)

\* the lifecycle as stated: may `caller` send message `name` for the assignment, the
\* storage being c and the block timestamp block_timestamp
LifecycleAllows(name, caller, assignment_id, c, block_timestamp) ==
    /\ assignment_id \in DOMAIN c.statuses
    /\ CASE name = "driver_mark_delivered" ->
                /\ c.statuses[assignment_id] = STATUS_OPEN
                /\ caller = c.drivers[assignment_id]
         [] name = "receiver_confirm" ->
                /\ c.statuses[assignment_id] = STATUS_DELIVERED
                /\ caller = c.senders[assignment_id]
         [] name = "auto_release_if_timeout" ->
                /\ c.statuses[assignment_id] = STATUS_DELIVERED
                /\ U64Geq(block_timestamp, StatedDeadline(c, assignment_id))
         [] name = "cancel_before_delivered" ->
                /\ c.statuses[assignment_id] = STATUS_OPEN
                /\ caller = c.senders[assignment_id]
         [] OTHER -> FALSE

LifecycleMessages ==
    {"driver_mark_delivered", "receiver_confirm", "auto_release_if_timeout",
     "cancel_before_delivered"}

\* the status the stated lifecycle gives an assignment after a message
StatusAfter(name) ==
    CASE name = "driver_mark_delivered" -> STATUS_DELIVERED
      [] name = "cancel_before_delivered" -> STATUS_CANCELLED
      [] OTHER -> STATUS_COMPLETED

\* a step that changes the status of an existing escrow is one of the four messages,
\* sent for that assignment within the stated lifecycle, and sets the status it names
StatusChangeAsStated(assignment_id) ==
    InkStatusChanges(assignment_id) =>
            /\ nInkCalls' = nInkCalls + 1
            /\ inkCall'.result = "ok"
            /\ inkCall'.assignment_id = assignment_id
            /\ inkCall'.name \in LifecycleMessages
            /\ LifecycleAllows(inkCall'.name, inkCall'.caller, assignment_id, contract,
                               ink_env.block_timestamp)
            /\ assignment_id \in DOMAIN contract'.statuses
            /\ contract'.statuses[assignment_id] = StatusAfter(inkCall'.name)

\* one of the four messages sent outside the stated lifecycle panics, and storage,
\* balance and transfers are as before
OtherCallPanics ==
    (/\ nInkCalls' = nInkCalls + 1
     /\ inkCall'.name \in LifecycleMessages
     /\ ~LifecycleAllows(inkCall'.name, inkCall'.caller, inkCall'.assignment_id, contract,
                         ink_env.block_timestamp))
        => /\ inkCall'.result = "panic"
           /\ contract' = contract
           /\ ink_env' = ink_env
           /\ transfers' = transfers

\* C34: in the ink contract a status becomes Delivered only from Open by a
\* driver_mark_delivered of the configured driver, Cancelled only from Open by a
\* cancel_before_delivered of the sender, Completed only from Delivered by a
\* receiver_confirm of the sender or by an auto_release_if_timeout of any caller with
\* now >= delivered_at + timeout_ms; every other call of the four messages panics and
\* changes nothing
C34_InkLifecycle ==
    [][(\A assignment_id \in AssignmentIds : StatusChangeAsStated(assignment_id))
          /\ OtherCallPanics]_vars

\* an escrow was completed by auto_release_if_timeout, called by the sender one ms or
\* more after the delivery
C34_Witness ==
    /\ inkCall.name = "auto_release_if_timeout"
    /\ inkCall.result = "ok"
    /\ inkCall.assignment_id \in DOMAIN contract.statuses
    /\ contract.statuses[inkCall.assignment_id] = STATUS_COMPLETED
    /\ contract.timeouts_ms[inkCall.assignment_id] = U64(0, 1)
    /\ inkCall.caller = contract.senders[inkCall.assignment_id]
    /\ inkCall.caller # contract.drivers[inkCall.assignment_id]

----------------------------------------------------------------------------
(* Properties of the escrow pallet's storage *)

\* the step dispatches a create_escrow call
CreateEscrowStep == nCalls' = nCalls + 1 /\ lastCall'.name = "create_escrow"

\* a successful create_escrow gives the new escrow the value of the counter, which no
\* escrow has yet, and adds one to the counter; the escrows there were keep their ids
SuccessfulCreateAllocates ==
    (CreateEscrowStep /\ lastCall'.result = Ok) =>
        /\ NextEscrowId' = NextEscrowId + 1
        /\ NextEscrowId \notin DOMAIN Escrows
        /\ DOMAIN Escrows' = DOMAIN Escrows \cup {NextEscrowId}
        /\ \A id \in DOMAIN Escrows : Escrows'[id] = Escrows[id]
        /\ Len(events') = 1
        /\ events'[1].event = "EscrowCreated"
        /\ events'[1].escrow_id = NextEscrowId

\* any other step, a failed create_escrow included, leaves the counter and the set of
\* ids as they are
OtherStepKeepsCounter ==
    ~(CreateEscrowStep /\ lastCall'.result = Ok) =>
        /\ NextEscrowId' = NextEscrowId
        /\ DOMAIN Escrows' = DOMAIN Escrows

\* the ids in use are 0 .. NextEscrowId - 1, one per create_escrow that succeeded, and no
\* two requests are indexed to one id
IdsBelowCounter ==
    /\ DOMAIN Escrows = 0..(NextEscrowId - 1)
    /\ \A id \in DOMAIN Escrows : id < NextEscrowId
    /\ \A r1, r2 \in DOMAIN RequestToEscrow :
          RequestToEscrow[r1] = RequestToEscrow[r2] => r1 = r2

\* C35: escrow ids come from a monotone counter: the k-th successful create_escrow gets
\* id k - 1, NextEscrowId is the number of successful create_escrow calls, every key of
\* Escrows is below NextEscrowId, no two escrows share an id, and a failed create_escrow
\* consumes no id
C35_MonotoneIds ==
    []IdsBelowCounter /\ [][SuccessfulCreateAllocates /\ OtherStepKeepsCounter]_vars

\* a second create_escrow succeeded and got id 1, after one that failed
C35_Witness ==
    /\ lastCall.name = "create_escrow"
    /\ lastCall.result = Ok
    /\ NextEscrowId = 2
    /\ nCalls = 3
    /\ Len(events) = 1
    /\ events[1].escrow_id = 1
    /\ DOMAIN Escrows = {0, 1}

\* RequestToEscrow[req] = id exactly when Escrows[id] exists with request_uuid = req
IndexConsistent ==
    /\ \A req \in DOMAIN RequestToEscrow :
          /\ RequestToEscrow[req] \in DOMAIN Escrows
          /\ Escrows[RequestToEscrow[req]].request_uuid = req
    /\ \A id \in DOMAIN Escrows :
          /\ Escrows[id].request_uuid \in DOMAIN RequestToEscrow
          /\ RequestToEscrow[Escrows[id].request_uuid] = id

\* a step removes no entry of either map and rewrites no index entry
MapsOnlyGrow ==
    /\ DOMAIN Escrows \subseteq DOMAIN Escrows'
    /\ DOMAIN RequestToEscrow \subseteq DOMAIN RequestToEscrow'
    /\ \A req \in DOMAIN RequestToEscrow : RequestToEscrow'[req] = RequestToEscrow[req]

\* a step changes nothing of an existing escrow but its status
OnlyStatusChanges ==
    \A id \in DOMAIN Escrows :
        id \in DOMAIN Escrows' =>
            [Escrows'[id] EXCEPT !.status = Escrows[id].status] = Escrows[id]

\* C36: the index and the escrows agree in every reachable state (RequestToEscrow[req] =
\* id if and only if Escrows[id] exists with request_uuid = req), neither map loses an
\* entry, and after its creation an escrow changes in its status only
C36_IndexConsistency ==
    []IndexConsistent /\ [][MapsOnlyGrow /\ OnlyStatusChanges]_vars

\* two escrows are indexed, and the latest call changed the status of one of them
C36_Witness ==
    /\ Cardinality(DOMAIN Escrows) = 2
    /\ Cardinality(DOMAIN RequestToEscrow) = 2
    /\ lastCall.name \in {"mark_picked_up", "release_escrow", "force_timeout_release"}
    /\ lastCall.result = Ok
    /\ \E id \in DOMAIN Escrows : Escrows[id].status # "Created"

----------------------------------------------------------------------------
(* Properties of the escrow pallet's payments *)

\* the positions of the PaymentReleased events for escrow_id among evs
PaymentsReleased(evs, escrow_id) ==
    {k \in 1..Len(evs) : evs[k].event = "PaymentReleased" /\ evs[k].escrow_id = escrow_id}

\* the step dispatches a call that puts the escrow in ConfirmedByReceiver or
\* TimeoutReleased, which it was not in
EntersReleased(escrow_id) ==
    /\ escrow_id \in DOMAIN Escrows
    /\ escrow_id \in DOMAIN Escrows'
    /\ Escrows[escrow_id].status \notin {"ConfirmedByReceiver", "TimeoutReleased"}
    /\ Escrows'[escrow_id].status \in {"ConfirmedByReceiver", "TimeoutReleased"}

\* a dispatched call emits PaymentReleased for an escrow exactly when it puts the escrow
\* in ConfirmedByReceiver or TimeoutReleased: once, with the amount of the record, which
\* is the amount of its EscrowCreated event
PaymentAtRelease ==
    nCalls' = nCalls + 1 =>
        \A escrow_id \in EscrowIds :
            LET paid == PaymentsReleased(events', escrow_id)
            IN  /\ paid # {} <=> EntersReleased(escrow_id)
                /\ Cardinality(paid) <= 1
                /\ \A k \in paid : events'[k].amount = Escrows[escrow_id].amount
                /\ \A k \in 1..Len(events') :
                       (events'[k].event = "EscrowCreated"
                            /\ events'[k].escrow_id = escrow_id)
                           => /\ escrow_id \notin DOMAIN Escrows
                              /\ Escrows'[escrow_id].amount = events'[k].amount

\* an escrow in ConfirmedByReceiver or TimeoutReleased stays as it is, amount included
ReleasedStays ==
    \A escrow_id \in DOMAIN Escrows :
        Escrows[escrow_id].status \in {"ConfirmedByReceiver", "TimeoutReleased"} =>
            /\ escrow_id \in DOMAIN Escrows'
            /\ Escrows'[escrow_id] = Escrows[escrow_id]

\* the amount of an escrow never changes
AmountStays ==
    \A escrow_id \in DOMAIN Escrows :
        /\ escrow_id \in DOMAIN Escrows'
        /\ Escrows'[escrow_id].amount = Escrows[escrow_id].amount

\* C37: PaymentReleased is emitted for an escrow exactly at the step that puts it in
\* ConfirmedByReceiver or TimeoutReleased, with the amount given to create_escrow; as
\* the escrow never leaves these statuses, it is emitted at most once per escrow_id
C37_PaymentReleasedOnce ==
    [][PaymentAtRelease /\ ReleasedStays /\ AmountStays]_vars

\* force_timeout_release has just emitted PaymentReleased for an escrow, after another
\* escrow was released by a call before
C37_Witness ==
    /\ lastCall.name = "force_timeout_release"
    /\ lastCall.result = Ok
    /\ \E id \in DOMAIN Escrows :
          /\ PaymentsReleased(events, id) # {}
          /\ Escrows[id].status = "TimeoutReleased"
          /\ \E other \in DOMAIN Escrows \ {id} :
                Escrows[other].status = "ConfirmedByReceiver"

----------------------------------------------------------------------------
(* Progress of the escrow pallet *)

\* force_timeout_release succeeds for every signed caller on every escrow that is not
\* final and whose deadline the block number has reached, and makes it TimeoutReleased
TimeoutEnabledWhenDue ==
    \A escrow_id \in DOMAIN Escrows : \A who \in Accounts :
        (Escrows[escrow_id].status \in NonTerminal
             /\ block_number >= Escrows[escrow_id].deadline)
            => LET r == force_timeout_release(who, escrow_id)
               IN  /\ r.result = Ok
                   /\ r.Escrows[escrow_id].status = "TimeoutReleased"

\* every status is either one of the three that are not terminal or a terminal one
StatusesPartitioned ==
    \A escrow_id \in DOMAIN Escrows :
        Escrows[escrow_id].status \in NonTerminal \cup Terminal

\* an escrow that exists eventually is in a terminal status
EventuallyTerminal(escrow_id) ==
    (escrow_id \in DOMAIN Escrows)
        ~> (escrow_id \in DOMAIN Escrows /\ Escrows[escrow_id].status \in Terminal)

\* C38: from each of Created, PickedUpByCourier and DeliveredByCourier,
\* force_timeout_release is enabled for any signed caller once the block number has
\* reached the deadline; so on a chain whose block numbers keep growing and where the
\* call is eventually made, every escrow eventually reaches a terminal status
C38_NoEscrowStuck ==
    /\ [](TimeoutEnabledWhenDue /\ StatusesPartitioned)
    /\ \A escrow_id \in EscrowIds : EventuallyTerminal(escrow_id)

\* force_timeout_release, sent as the fourth call, released an escrow at the very block
\* of its deadline
C38_Witness ==
    /\ lastCall.name = "force_timeout_release"
    /\ lastCall.result = Ok
    /\ nCalls = 4
    /\ \E id \in DOMAIN Escrows :
          /\ Escrows[id].status = "TimeoutReleased"
          /\ block_number = Escrows[id].deadline
          /\ PaymentsReleased(events, id) # {}

----------------------------------------------------------------------------
(* Statuses of the escrow pallet that no call writes *)

\* the statuses some escrow has
StatusesObserved == {Escrows[id].status : id \in DOMAIN Escrows}

\* C39: no sequence of create_escrow, mark_picked_up, mark_delivered, confirm_received,
\* release_escrow and force_timeout_release calls puts an escrow in Cancelled or Failed:
\* the terminal statuses observed are ConfirmedByReceiver and TimeoutReleased only
C39_CancelledFailedUnreachable ==
    /\ "Cancelled" \notin StatusesObserved
    /\ "Failed" \notin StatusesObserved
    /\ StatusesObserved \cap Terminal \subseteq {"ConfirmedByReceiver", "TimeoutReleased"}
    /\ StatusesObserved \subseteq DeliveryStatus

\* both terminal statuses that can be reached are there, the second by release_escrow
C39_Witness ==
    /\ StatusesObserved = {"ConfirmedByReceiver", "TimeoutReleased"}
    /\ lastCall.name = "release_escrow"
    /\ lastCall.result = Ok

\* the transfers made for an assignment, as positions of the history
PayoutsOf(assignment_id) ==
    {k \in 1..Len(transfers) : transfers[k].assignment_id = assignment_id}

\* an assignment is paid at most once: to its driver if it is Completed, back to its
\* sender if it is Cancelled, its whole deposit, and not at all in another status
PaidAtMostOnce ==
    \A assignment_id \in AssignmentIds :
        LET paid == PayoutsOf(assignment_id)
        IN  /\ Cardinality(paid) <= 1
            /\ paid # {} =>
                   /\ assignment_id \in DOMAIN contract.statuses
                   /\ contract.statuses[assignment_id]
                          \in {STATUS_COMPLETED, STATUS_CANCELLED}
            /\ assignment_id \in DOMAIN contract.statuses =>
                   \A k \in paid :
                       /\ transfers[k].amount = contract.amounts[assignment_id]
                       /\ contract.statuses[assignment_id] = STATUS_COMPLETED
                              => transfers[k].dest = contract.drivers[assignment_id]
                       /\ contract.statuses[assignment_id] = STATUS_CANCELLED
                              => transfers[k].dest = contract.senders[assignment_id]
            /\ (/\ assignment_id \in DOMAIN contract.statuses
                /\ contract.statuses[assignment_id]
                       \in {STATUS_COMPLETED, STATUS_CANCELLED})
                   => paid # {}

\* every environment a call can have now
CallEnvs ==
    {CallEnv(caller, transferred_value, transfer_allowed) :
        caller \in Accounts, transferred_value \in Deposits \cup {0},
        transfer_allowed \in BOOLEAN}

\* open_and_deposit panics for an assignment_id that has an escrow
OpenRefusesExisting ==
    \A assignment_id \in DOMAIN contract.senders :
        \A env \in CallEnvs, driver \in Accounts, timeout_ms \in TimeoutValues :
            open_and_deposit(contract, env, assignment_id, driver, timeout_ms).result
                = "panic"

\* every message panics for an assignment that is Completed or Cancelled
FinalAdmitsNothing ==
    \A assignment_id \in DOMAIN contract.statuses :
        contract.statuses[assignment_id] \in {STATUS_COMPLETED, STATUS_CANCELLED} =>
            \A env \in CallEnvs :
                /\ driver_mark_delivered(contract, env, assignment_id).result = "panic"
                /\ receiver_confirm(contract, env, assignment_id).result = "panic"
                /\ auto_release_if_timeout(contract, env, assignment_id).result = "panic"
                /\ cancel_before_delivered(contract, env, assignment_id).result = "panic"

\* C40: in the ink contract the deposit of an assignment is paid out at most once over
\* any sequence of calls, to the driver on Completed or back to the sender on Cancelled,
\* never both and never twice: open_and_deposit refuses an assignment_id that has an
\* escrow, and Completed and Cancelled admit no further transition
C40_InkPaidOnce == PaidAtMostOnce /\ OpenRefusesExisting /\ FinalAdmitsNothing

\* one assignment was paid to its driver, who is not its sender, while the deposit of
\* another is still held by the contract
C40_Witness ==
    /\ \E a, b \in DOMAIN contract.statuses :
          /\ contract.statuses[a] = STATUS_OPEN
          /\ contract.statuses[b] = STATUS_COMPLETED
          /\ contract.drivers[b] # contract.senders[b]
          /\ PayoutsOf(a) = {}
          /\ PayoutsOf(b) # {}
          /\ ink_env.balance = contract.amounts[a]

====
